---- MODULE Spec2Model ----
(***************************************************************************)
(* Model of the ontology coherence-repair pipeline of neon-gpt             *)
(* (validate_fix_ontology_consistency.py, api_utils.py).                   *)
(*                                                                         *)
(* The state machine follows main() from the Coherence Diagnostic after    *)
(* the deterministic stage (line 1267) through the Slicer, the Patch Loop  *)
(* llm_fix_by_target_iris and the write of llm_fixes/result.json.  The     *)
(* external processes (ROBOT reason / explain) and the language-model      *)
(* service are open: every step draws their answer from a small set.       *)
(*                                                                         *)
(* The deterministic stage before it has two specifications of its own:    *)
(* PipelineSpec follows run_deterministic_pipeline from the load of the    *)
(* input to the write of deterministic_fixed.ttl, and PassSpec applies     *)
(* the Normalizer passes, the Non-Simple-Property Resolver and             *)
(* related_property_closure on their own to graphs drawn from small        *)
(* families of triples.                                                    *)
(*                                                                         *)
(* Four more specifications follow single functions: SendSpec is           *)
(* api_utils.send_prompt, SliceSpec is slice_graph, ReportSpec is the path *)
(* of the referenced IRIs from the justification blocks through            *)
(* report.json to target_iris, and ApplySpec is a chain of                 *)
(* apply_patch_to_ttl calls.                                               *)
(***************************************************************************)
EXTENDS Integers, Sequences, FiniteSets, TLC

VARIABLES
    pc,             \* position in main() / llm_fix_by_target_iris
    max_iterations, \* int(CONFIG["LLM_MAX_ITERATIONS"])
    it,             \* loop variable of `for it in range(1, max_iterations + 1)`
    current_onto,   \* name of the snapshot file the loop currently holds
    files,          \* snapshot files: name -> {} (absent) or {graph}
    patch_files,    \* names i of the patch_i.json files written
    history,        \* list of IterationRecords
    patch,          \* the parsed language-model reply of this iteration
    mode,           \* robot_explain_mode of this iteration
    attempt,        \* send_prompt's loop variable (0 outside send_prompt)
    status_code,    \* response.status_code of send_prompt's latest request
    lastRc,         \* exit code of the most recent `robot reason` process
    lastOut,        \* its combined output text
    lastStatus,     \* what robot_reason_status returned for it
    verdicts,       \* the verdicts of the Patch Loop's coherence checks, in order
    reasoned,       \* names of the snapshots a coherence check has read
    nRequests,      \* calls of openrouter_chat_json made by the Patch Loop
    result,         \* {} or {the dict llm_fix_by_target_iris returned}
    result_json,    \* llm_fixes/result.json: {} (absent) or {content}
    exc             \* "" or the exception that escaped main()

vars == <<pc, max_iterations, it, current_onto, files, patch_files, history,
          patch, mode, attempt, status_code, lastRc, lastOut, lastStatus, verdicts,
          reasoned, nRequests, result, result_json, exc>>

VARIABLES
    npc,            \* position in run_deterministic_pipeline ("idle" outside it)
    graph,          \* g, the rdflib graph the Normalizer edits in place
    applied,        \* the passes run on g so far, in order
    loop,           \* loop variable of `for loop in range(1, max_loops + 1)`
    max_loops,      \* int(CONFIG["HERMIT_MAX_LOOPS"])
    closure,        \* the latest call of related_property_closure and its result
    output_ttl,     \* deterministic_fixed.ttl: {} (absent) or {graph}
    hermit_runs     \* the calls of run_hermit so far, in order, with what followed

nvars == <<npc, graph, applied, loop, max_loops, closure, output_ttl, hermit_runs>>

VARIABLES
    sp_pc,          \* position in api_utils.send_prompt ("idle" outside the call)
    sp_max_retries, \* its parameter max_retries
    sp_wait_time,   \* its parameter wait_time
    sp_attempt,     \* loop variable of `for attempt in range(1, max_retries + 1)`
    sp_codes,       \* the status codes of the answers received, in order
    sp_slept,       \* the seconds spent in time.sleep
    sp_return       \* what the call returned (Unset while it runs)

svars == <<sp_pc, sp_max_retries, sp_wait_time, sp_attempt, sp_codes, sp_slept, sp_return>>

VARIABLES
    sl_pc,          \* position in slice_graph ("idle" outside the call)
    sl_g,           \* its parameter g, the loaded ontology graph
    seed_iris,      \* its parameter seed_iris, the IRIs of one justification block
    bnode_depth,    \* its parameter bnode_depth
    sl_out,         \* out, the slice under construction
    sl_frontier,    \* frontier
    sl_seen,        \* seen
    sl_depth,       \* depth, the counter of the expansion loop
    rp_pc,          \* position in the Slicer's report and its use ("idle" outside)
    blocks,         \* the referenced-IRI sets of the justification blocks
    report,         \* report.json: {} (absent) or {the "blocks" list written}
    target_iris,    \* target_iris of llm_fix_by_target_iris
    evidence_iris   \* the target sets passed to build_targeted_evidence, in order

lvars == <<sl_pc, sl_g, seed_iris, bnode_depth, sl_out, sl_frontier, sl_seen, sl_depth,
           rp_pc, blocks, report, target_iris, evidence_iris>>

(***************************************************************************)
(* Bounds of the model.                                                    *)
(***************************************************************************)
MaxIter == 3

\* max_retries passed to api_utils.send_prompt by openrouter_chat_json
MaxRetries == 3

(***************************************************************************)
(* Coherence Diagnostic: robot_reason_status.                              *)
(* The combined output text is a sequence of words; lower() maps a word    *)
(* to its lower-case form, and `s in lower` is substring search: a signal  *)
(* (a sequence of words) occurs where consecutive words of the text each   *)
(* contain the corresponding word of the signal.                           *)
(***************************************************************************)
LowerWord(w) ==
    CASE w = "Unsatisfiable" -> "unsatisfiable"
      [] w = "ERROR" -> "error"
      [] w = "Exception" -> "exception"
      [] w = "Ontology" -> "ontology"
      [] OTHER -> w

Lower(text) == [i \in 1..Len(text) |-> LowerWord(text[i])]

\* character-level containment between the (lower-case) words of the model
WordContains(w, part) ==
    \/ w = part
    \/ w = "parser" /\ part = "parse"
    \/ w = "unsatisfiability" /\ part = "unsatisfiable"

OccursAt(text, sig, i) ==
    /\ i + Len(sig) - 1 <= Len(text)
    /\ \A j \in 1..Len(sig) : WordContains(text[i + j - 1], sig[j])

OccursIn(sig, text) == \E i \in 1..Len(text) : OccursAt(text, sig, i)

incoherent_signals ==
    { <<"the", "ontology", "is", "inconsistent">>,
      <<"ontology", "is", "inconsistent">>,
      <<"unsatisfiable">>,
      <<"incoherent">> }

error_signals ==
    { <<"exception">>, <<"stacktrace">>, <<"parse">>, <<"owlapi">>,
      <<"failed", "to">>, <<"could", "not">>, <<"illegalargument">>,
      <<"nullpointer">>, <<"not", "found">>, <<"no", "such", "file">>,
      <<"unsupported">> }

\* a variant that reads the text before the exit code
robot_reason_status_text_first(rc, out) ==
    LET lower == Lower(out) IN
    IF \E s \in incoherent_signals : OccursIn(s, lower) THEN "incoherent"
    ELSE IF \E s \in error_signals : OccursIn(s, lower) THEN "error"
    ELSE IF rc = 0 THEN "coherent"
    ELSE "error"

\* a variant that matches the tool-error vocabulary before the incoherence one
robot_reason_status_errors_first(rc, out) ==
    LET lower == Lower(out) IN
    IF rc = 0 THEN "coherent"
    ELSE IF \E s \in error_signals : OccursIn(s, lower) THEN "error"
    ELSE IF \E s \in incoherent_signals : OccursIn(s, lower) THEN "incoherent"
    ELSE "error"

\* a variant whose fall-through verdict is "incoherent"
robot_reason_status_fallback_incoherent(rc, out) ==
    LET lower == Lower(out) IN
    IF rc = 0 THEN "coherent"
    ELSE IF \E s \in incoherent_signals : OccursIn(s, lower) THEN "incoherent"
    ELSE IF \E s \in error_signals : OccursIn(s, lower) THEN "error"
    ELSE "incoherent"

robot_reason_status(rc, out) ==
    LET lower == Lower(out) IN
    IF rc = 0 THEN "coherent"
    ELSE IF \E s \in incoherent_signals : OccursIn(s, lower) THEN "incoherent"
    ELSE IF \E s \in error_signals : OccursIn(s, lower) THEN "error"
    ELSE "error"

\* exit codes and output texts the `robot reason` process is drawn from
ExitCodes == {0, 1}

ReasonOutputs ==
    { <<>>,
      <<"ERROR", "Ontology", "is", "inconsistent">>,
      <<"Unsatisfiable", "class", "Exception">>,
      <<"parser", "Exception">>,
      <<"ERROR", "inconsistent", "axioms">> }

(***************************************************************************)
(* JSON values of the Patch schema.  A JSON object is a record whose       *)
(* fields are its keys; a JSON value that is no object is a record with    *)
(* the single field nondict.  A JSON string is split into the prefix       *)
(* _to_node tests with startswith ("_:", "http://", "https://" or "")      *)
(* and the rest.  A value of "operations" that is not a list behaves as a  *)
(* missing key (both fail the isinstance test), so the model has lists     *)
(* only.                                                                   *)
(***************************************************************************)
Str(pre, rest) == [pre |-> pre, rest |-> rest]

IsDict(x) == "nondict" \notin DOMAIN x

IsStr(x) == "pre" \in DOMAIN x

Get(d, k, default) == IF k \in DOMAIN d THEN d[k] ELSE default

Truthy(d, k) == k \in DOMAIN d /\ d[k] # ""

\* rdflib terms: URIRef, BNode, Literal(lexical, datatype, lang)
URIRef(pre, rest) == [k |-> "uri", pre |-> pre, rest |-> rest, dt |-> "", lang |-> ""]

BNode(rest) == [k |-> "bnode", pre |-> "", rest |-> rest, dt |-> "", lang |-> ""]

Literal(lex, dt, lang) == [k |-> "lit", pre |-> "", rest |-> lex, dt |-> dt, lang |-> lang]

Unsupported == [k |-> "unsupported", pre |-> "", rest |-> "", dt |-> "", lang |-> ""]

_to_node(x) ==
    IF IsDict(x) /\ "literal" \in DOMAIN x
    THEN IF Truthy(x, "datatype") THEN Literal(x.literal, x.datatype, "")
         ELSE IF Truthy(x, "lang") THEN Literal(x.literal, "", x.lang)
         ELSE Literal(x.literal, "", "")
    ELSE IF IsStr(x)
    THEN IF x.pre = "_:" THEN BNode(x.rest)
         ELSE IF x.pre \in {"http://", "https://"} THEN URIRef(x.pre, x.rest)
         ELSE Literal(x.rest, "", "")
    ELSE Unsupported

TripleKeys == {"s", "p", "o"}

\* a variant that only asks for a first operation (len(ops) < 1)
validate_patch_some_op(p) ==
    IF ~IsDict(p) THEN "Patch must be a JSON object."
    ELSE IF "operations" \notin DOMAIN p \/ Len(p.operations) < 1
    THEN "Patch must contain exactly 1 operation."
    ELSE LET op == p.operations[1]
             typ == Get(op, "op", "None")
         IN IF ~IsDict(op) THEN "Operation must be an object."
            ELSE IF typ \notin {"delete_triple", "add_triple", "replace_triple"}
            THEN "Unsupported operation"
            ELSE IF typ \in {"delete_triple", "add_triple"}
            THEN IF "triple" \notin DOMAIN op \/ ~IsDict(op.triple)
                 THEN "Missing 'triple' for add/delete."
                 ELSE IF ~(TripleKeys \subseteq DOMAIN op.triple)
                 THEN "Triple missing key"
                 ELSE ""
            ELSE IF \/ "old" \notin DOMAIN op \/ "new" \notin DOMAIN op
                    \/ ~IsDict(op.old) \/ ~IsDict(op.new)
                 THEN "replace_triple requires 'old' and 'new'."
                 ELSE IF ~(TripleKeys \subseteq DOMAIN op.old) \/ ~(TripleKeys \subseteq DOMAIN op.new)
                 THEN "triple missing key"
                 ELSE ""

\* "" when the patch passes, otherwise the ValueError raised
validate_patch_one_op(p) ==
    IF ~IsDict(p) THEN "Patch must be a JSON object."
    ELSE IF "operations" \notin DOMAIN p \/ Len(p.operations) # 1
    THEN "Patch must contain exactly 1 operation."
    ELSE LET op == p.operations[1]
             typ == Get(op, "op", "None")
         IN IF ~IsDict(op) THEN "Operation must be an object."
            ELSE IF typ \notin {"delete_triple", "add_triple", "replace_triple"}
            THEN "Unsupported operation"
            ELSE IF typ \in {"delete_triple", "add_triple"}
            THEN IF "triple" \notin DOMAIN op \/ ~IsDict(op.triple)
                 THEN "Missing 'triple' for add/delete."
                 ELSE IF ~(TripleKeys \subseteq DOMAIN op.triple)
                 THEN "Triple missing key"
                 ELSE ""
            ELSE IF \/ "old" \notin DOMAIN op \/ "new" \notin DOMAIN op
                    \/ ~IsDict(op.old) \/ ~IsDict(op.new)
                 THEN "replace_triple requires 'old' and 'new'."
                 ELSE IF ~(TripleKeys \subseteq DOMAIN op.old) \/ ~(TripleKeys \subseteq DOMAIN op.new)
                 THEN "triple missing key"
                 ELSE ""

ToTriple(t) == <<_to_node(t.s), _to_node(t.p), _to_node(t.o)>>

HasUnsupported(tr) == \E i \in 1..3 : tr[i] = Unsupported

\* load_turtle_graph: the triple set the snapshot file holds
load_turtle_graph(fs, path) == CHOOSE g \in fs[path] : TRUE

\* write_graph_as_turtle: the file at path now holds g
write_graph_as_turtle(fs, g, path) == [fs EXCEPT ![path] = {g}]

\* apply_patch_to_ttl on the file system fs: the exception raised ("" for
\* none) and the file system afterwards
apply_patch_to_ttl(fs, in_ttl, out_ttl, p) ==
    LET err == validate_patch_one_op(p) IN
    IF err # "" THEN [exc |-> err, files |-> fs]
    ELSE
    LET g == load_turtle_graph(fs, in_ttl)
        op == p.operations[1]
        typ == op.op
    IN IF typ \in {"delete_triple", "add_triple"}
       THEN LET tr == ToTriple(op.triple) IN
            IF HasUnsupported(tr) THEN [exc |-> "Unsupported node", files |-> fs]
            ELSE IF typ = "delete_triple"
            THEN [exc |-> "", files |-> write_graph_as_turtle(fs, g \ {tr}, out_ttl)]
            ELSE [exc |-> "", files |-> write_graph_as_turtle(fs, g \cup {tr}, out_ttl)]
       ELSE LET old == ToTriple(op.old)
                new == ToTriple(op.new)
            IN IF HasUnsupported(old) \/ HasUnsupported(new)
               THEN [exc |-> "Unsupported node", files |-> fs]
               ELSE [exc |-> "", files |-> write_graph_as_turtle(fs, (g \ {old}) \cup {new}, out_ttl)]

(***************************************************************************)
(* The terms, triples and input graphs of the model, and the replies the   *)
(* language-model service is drawn from.                                   *)
(***************************************************************************)
ClsA == Str("http://", "A")

ClsB == Str("https://", "B")

PEquivalentClass == Str("http://", "owl#equivalentClass")

PSubClassOf == Str("http://", "rdfs#subClassOf")

PLabel == Str("http://", "rdfs#label")

JEquiv == [s |-> ClsA, p |-> PEquivalentClass, o |-> ClsB]

JSub == [s |-> ClsA, p |-> PSubClassOf, o |-> ClsB]

JLabel == [s |-> ClsA, p |-> PLabel, o |-> [literal |-> "a", lang |-> "en"]]

TEquiv == ToTriple(JEquiv)

TSub == ToTriple(JSub)

InputGraphs == { {TEquiv, TSub}, {TEquiv} }

OpDelete == [op |-> "delete_triple", triple |-> JEquiv]

OpAddSub == [op |-> "add_triple", triple |-> JSub]

OpAddLabel == [op |-> "add_triple", triple |-> JLabel]

OpReplace == [op |-> "replace_triple", old |-> JEquiv, new |-> JSub]

OnePatch(op) == [operations |-> <<op>>, rationale |-> "r"]

ValidPatches == { OnePatch(OpDelete), OnePatch(OpAddSub), OnePatch(OpAddLabel), OnePatch(OpReplace) }

InvalidPatches ==
    { [nondict |-> "list"],
      [rationale |-> "r"],
      [operations |-> <<>>, rationale |-> "r"],
      [operations |-> <<OpDelete, OpAddSub>>, rationale |-> "r"],
      OnePatch([nondict |-> "string"]),
      OnePatch([op |-> "update_triple", triple |-> JEquiv]),
      OnePatch([triple |-> JEquiv]),
      OnePatch([op |-> "delete_triple"]),
      OnePatch([op |-> "add_triple", triple |-> [s |-> ClsA, p |-> PSubClassOf]]),
      OnePatch([op |-> "replace_triple", triple |-> JEquiv]),
      OnePatch([op |-> "replace_triple", old |-> JEquiv, new |-> [s |-> ClsA, o |-> ClsB]]) }

\* passes validation, but _to_node raises on the number
UnsupportedPatches ==
    { OnePatch([op |-> "add_triple", triple |-> [s |-> ClsA, p |-> PLabel, o |-> [nondict |-> "number"]]]) }

Patches == ValidPatches \cup InvalidPatches \cup UnsupportedPatches

\* the reply text of the language model as openrouter_chat_json sees it:
\* "json" parses directly, "embedded" holds one JSON object inside other
\* text, "garbled" holds braces around something that is no JSON, "prose"
\* holds no brace at all
Replies ==
    {[form |-> "json", value |-> p] : p \in Patches}
        \cup {[form |-> "embedded", value |-> p] : p \in {OnePatch(OpDelete), [rationale |-> "r"]}}
        \cup {[form |-> "garbled"], [form |-> "prose"]}

\* json.loads first, then the first-to-last-brace extraction
parse_reply(reply) ==
    CASE reply.form = "json" -> [exc |-> "", value |-> reply.value]
      [] reply.form = "embedded" -> [exc |-> "", value |-> reply.value]
      [] reply.form = "garbled" ->
            [exc |-> "ValueError: Model output wasn't valid JSON even after extraction."]
      [] OTHER -> [exc |-> "ValueError: Model output did not contain a JSON object."]

StatusCodes == {200, 429, 500}

(***************************************************************************)
(* The state machine.  Snapshot files are named by number: 0 is the        *)
(* ontology main() hands to the Patch Loop (deterministic_fixed.ttl or the *)
(* input file), i >= 1 is llm_fixes/iter_i.ttl.                            *)
(***************************************************************************)
FileNames == 0..(MaxIter + 1)

NoPatch == [nondict |-> "none"]

\* the variables of send_prompt outside the specification of the call
SendIdle ==
    /\ sp_pc = "idle"
    /\ sp_max_retries = 0
    /\ sp_wait_time = 0
    /\ sp_attempt = 0
    /\ sp_codes = <<>>
    /\ sp_slept = 0
    /\ sp_return = [kind |-> "unset"]

\* the variables of slice_graph outside the specification of the call
SliceIdle ==
    /\ sl_pc = "idle"
    /\ sl_g = {}
    /\ seed_iris = {}
    /\ bnode_depth = 0
    /\ sl_out = {}
    /\ sl_frontier = {}
    /\ sl_seen = {}
    /\ sl_depth = 0

\* the variables of the Slicer's report outside its specification
ReportIdle ==
    /\ rp_pc = "idle"
    /\ blocks = <<>>
    /\ report = {}
    /\ target_iris = {}
    /\ evidence_iris = <<>>

SlicerIdle == SliceIdle /\ ReportIdle

\* no call of related_property_closure yet
NoClosure == [called |-> FALSE]

\* the variables of the Normalizer while main() is past the deterministic stage
NormalizerIdle ==
    /\ npc = "idle"
    /\ graph = {}
    /\ applied = <<>>
    /\ loop = 0
    /\ max_loops = 0
    /\ closure = NoClosure
    /\ output_ttl = {}
    /\ hermit_runs = <<>>

Init ==
    /\ pc = "main_reason"
    /\ max_iterations \in 0..MaxIter
    /\ it = 0
    /\ current_onto = 0
    /\ \E g \in InputGraphs : files = [n \in FileNames |-> IF n = 0 THEN {g} ELSE {}]
    /\ patch_files = {}
    /\ history = <<>>
    /\ patch = NoPatch
    /\ mode = ""
    /\ attempt = 0
    /\ status_code = 0
    /\ lastRc = 0
    /\ lastOut = <<>>
    /\ lastStatus = ""
    /\ verdicts = <<>>
    /\ reasoned = {}
    /\ nRequests = 0
    /\ result = {}
    /\ result_json = {}
    /\ exc = ""
    /\ NormalizerIdle
    /\ SendIdle
    /\ SlicerIdle

\* a variant with one value more: range(1, max_iterations + 2)
LoopHasNext_one_more(i, n) == i < n + 1

\* `for it in range(1, max_iterations + 1)`: is there a value after i
LoopHasNext(i, n) == i < n

\* a variant that writes the patched graph back to the file it read
next_onto_in_place(i, cur) == cur

\* out_dir / f"iter_{it:03d}.ttl"
next_onto(i, cur) == i

\* a variant that counts the stopping iteration
IterationsAtStop_it(i) == i

\* the "iterations" field of a result returned from inside the loop
IterationsAtStop(i) == i - 1

\* a variant that reports every verdict but Coherent as a tool error
FinalStatus_two_way(status) ==
    IF status = "coherent" THEN "coherent" ELSE "robot_reason_error"

\* a variant that never reports coherent after the last iteration
FinalStatus_cap_reached(status) ==
    IF status = "error" THEN "robot_reason_error" ELSE "max_iterations_reached"

\* the status of the result returned after the loop
FinalStatus(status) ==
    IF status = "coherent" THEN "coherent"
    ELSE IF status = "error" THEN "robot_reason_error"
    ELSE "max_iterations_reached"

LoopResult(status, iterations, cur, hist) ==
    [status |-> status, iterations |-> iterations, final_ontology |-> cur, history |-> hist]

\* a variant that overwrites the last record instead of appending
append_history_replace_last(hist, rec) ==
    IF hist = <<>> THEN <<rec>> ELSE [hist EXCEPT ![Len(hist)] = rec]

\* history.append({...})
append_history(hist, rec) == Append(hist, rec)

Raise(e) ==
    /\ pc' = "raised"
    /\ exc' = e

\* main(), lines 1267-1283: the Coherence Diagnostic after the deterministic stage
MainReason ==
    /\ pc = "main_reason"
    /\ \E rc \in ExitCodes, out \in ReasonOutputs :
        LET status == robot_reason_status(rc, out) IN
        /\ lastRc' = rc
        /\ lastOut' = out
        /\ lastStatus' = status
        /\ pc' = IF status = "incoherent" THEN "slices" ELSE "done"
    /\ reasoned' = reasoned \cup {current_onto}
    /\ UNCHANGED <<max_iterations, it, current_onto, files, patch_files, history, patch,
                   mode, attempt, status_code, verdicts, nRequests, result, result_json, exc>>
    /\ UNCHANGED <<nvars, svars, lvars>>

\* main(), lines 1286-1300: the Slicer writes report.json, or it is expected on disk
Slices ==
    /\ pc = "slices"
    /\ \E run \in BOOLEAN, explained \in BOOLEAN, onDisk \in BOOLEAN :
        IF run
        THEN IF explained
             THEN pc' = "llm_gate" /\ exc' = exc
             ELSE Raise("RuntimeError: ROBOT could not produce explanation markdown.")
        ELSE IF onDisk
             THEN pc' = "llm_gate" /\ exc' = exc
             ELSE Raise("FileNotFoundError: Expected report.json")
    /\ UNCHANGED <<max_iterations, it, current_onto, files, patch_files, history, patch,
                   mode, attempt, status_code, lastRc, lastOut, lastStatus, verdicts,
                   reasoned, nRequests, result, result_json>>
    /\ UNCHANGED <<nvars, svars, lvars>>

\* main(), lines 1303-1322 and 1326-1327, and the entry of llm_fix_by_target_iris
LlmGate ==
    /\ pc = "llm_gate"
    /\ \E run_llm \in BOOLEAN :
        IF run_llm
        THEN IF LoopHasNext(0, max_iterations)
             THEN pc' = "check" /\ it' = 1
             ELSE pc' = "final" /\ it' = it
        ELSE pc' = "done" /\ it' = it
    /\ UNCHANGED <<max_iterations, current_onto, files, patch_files, history, patch,
                   mode, attempt, status_code, lastRc, lastOut, lastStatus, verdicts,
                   reasoned, nRequests, result, result_json, exc>>
    /\ UNCHANGED <<nvars, svars, lvars>>

\* a variant that goes on to the explain command after a ToolError verdict
after_verdict_error_explained(status) ==
    IF status = "coherent" THEN "returned" ELSE "explain"

\* lines 1160-1182: both `return result` leave the loop, anything else
\* falls through to robot_explain_markdown
after_verdict(status) ==
    IF status = "coherent" \/ status = "error" THEN "returned" ELSE "explain"

\* llm_fix_by_target_iris, lines 1159-1180
CheckCoherence ==
    /\ pc = "check"
    /\ \E rc \in ExitCodes, out \in ReasonOutputs :
        LET status == robot_reason_status(rc, out) IN
        /\ lastRc' = rc
        /\ lastOut' = out
        /\ lastStatus' = status
        /\ verdicts' = Append(verdicts, status)
        /\ result' =
                IF status = "coherent"
                THEN {LoopResult("coherent", IterationsAtStop(it), current_onto, history)}
                ELSE IF status = "error"
                THEN {LoopResult("robot_reason_error", IterationsAtStop(it), current_onto, history)}
                ELSE result
        /\ pc' = after_verdict(status)
    /\ reasoned' = reasoned \cup {current_onto}
    /\ UNCHANGED <<max_iterations, it, current_onto, files, patch_files, history, patch,
                   mode, attempt, status_code, nRequests, result_json, exc>>
    /\ UNCHANGED <<nvars, svars, lvars>>

\* lines 1182-1194: robot_explain_markdown (inconsistency mode, then
\* unsatisfiability mode), the evidence and the prompt, and the call of
\* openrouter_chat_json up to send_prompt's first request
Explain ==
    /\ pc = "explain"
    /\ \E produced \in BOOLEAN, produced2 \in BOOLEAN :
        IF produced \/ produced2
        THEN /\ mode' = IF produced THEN "inconsistency" ELSE "unsatisfiability"
             /\ pc' = "request"
             /\ attempt' = 1
             /\ nRequests' = nRequests + 1
             /\ exc' = exc
        ELSE /\ Raise("RuntimeError: ROBOT could not produce explanation markdown.")
             /\ UNCHANGED <<mode, attempt, nRequests>>
    /\ UNCHANGED <<max_iterations, it, current_onto, files, patch_files, history, patch,
                   status_code, lastRc, lastOut, lastStatus, verdicts, reasoned,
                   result, result_json>>
    /\ UNCHANGED <<nvars, svars, lvars>>

\* api_utils.send_prompt, one pass of its loop (lines 50-88), and on its
\* return the rest of openrouter_chat_json (lines 991-1014)
SendAttempt ==
    /\ pc = "request"
    /\ \E code \in StatusCodes :
        /\ status_code' = code
        /\ IF code = 200
           THEN \E reply \in Replies :
                    LET parsed == parse_reply(reply) IN
                    IF parsed.exc = ""
                    THEN /\ patch' = parsed.value
                         /\ pc' = "apply"
                         /\ exc' = exc
                         /\ attempt' = 0
                    ELSE /\ Raise(parsed.exc)
                         /\ UNCHANGED <<patch, attempt>>
           ELSE IF code = 429 /\ attempt < MaxRetries
           THEN /\ attempt' = attempt + 1
                /\ UNCHANGED <<pc, patch, exc>>
           ELSE /\ Raise("RuntimeError: api_utils.send_prompt returned None (request failed).")
                /\ UNCHANGED <<patch, attempt>>
    /\ UNCHANGED <<max_iterations, it, current_onto, files, patch_files, history,
                   mode, lastRc, lastOut, lastStatus, verdicts, reasoned, nRequests,
                   result, result_json>>
    /\ UNCHANGED <<nvars, svars, lvars>>

\* lines 1195-1211: patch_i.json, apply_patch_to_ttl, the IterationRecord
ApplyPatch ==
    /\ pc = "apply"
    /\ patch_files' = patch_files \cup {it}
    /\ LET out_ttl == next_onto(it, current_onto)
           r == apply_patch_to_ttl(files, current_onto, out_ttl, patch)
       IN /\ files' = r.files
          /\ IF r.exc # ""
             THEN /\ Raise("ValueError: " \o r.exc)
                  /\ UNCHANGED <<history, current_onto, it>>
             ELSE /\ history' = append_history(history,
                                    [iteration |-> it,
                                     robot_explain_mode |-> mode,
                                     patch_path |-> it,
                                     ontology_path |-> out_ttl,
                                     rationale |-> Get(patch, "rationale", ""),
                                     operations |-> Get(patch, "operations", <<>>)])
                  /\ current_onto' = out_ttl
                  /\ exc' = exc
                  /\ IF LoopHasNext(it, max_iterations)
                     THEN pc' = "check" /\ it' = it + 1
                     ELSE pc' = "final" /\ it' = it
    /\ UNCHANGED <<max_iterations, patch, mode, attempt, status_code, lastRc, lastOut,
                   lastStatus, verdicts, reasoned, nRequests, result, result_json>>
    /\ UNCHANGED <<nvars, svars, lvars>>

\* lines 1213-1222: the check after the last iteration
FinalCheck ==
    /\ pc = "final"
    /\ \E rc \in ExitCodes, out \in ReasonOutputs :
        LET status == robot_reason_status(rc, out) IN
        /\ lastRc' = rc
        /\ lastOut' = out
        /\ lastStatus' = status
        /\ verdicts' = Append(verdicts, status)
        /\ result' = {LoopResult(FinalStatus(status), max_iterations, current_onto, history)}
    /\ reasoned' = reasoned \cup {current_onto}
    /\ pc' = "returned"
    /\ UNCHANGED <<max_iterations, it, current_onto, files, patch_files, history, patch,
                   mode, attempt, status_code, nRequests, result_json, exc>>
    /\ UNCHANGED <<nvars, svars, lvars>>

\* main(), lines 1323-1325: llm_fixes/result.json
WriteResult ==
    /\ pc = "returned"
    /\ result_json' = result
    /\ pc' = "done"
    /\ UNCHANGED <<max_iterations, it, current_onto, files, patch_files, history, patch,
                   mode, attempt, status_code, lastRc, lastOut, lastStatus, verdicts,
                   reasoned, nRequests, result, exc>>
    /\ UNCHANGED <<nvars, svars, lvars>>

Next ==
    \/ MainReason
    \/ Slices
    \/ LlmGate
    \/ CheckCoherence
    \/ Explain
    \/ SendAttempt
    \/ ApplyPatch
    \/ FinalCheck
    \/ WriteResult

Spec == Init /\ [][Next]_<<vars, nvars, svars, lvars>>

TypeOK ==
    /\ pc \in {"main_reason", "slices", "llm_gate", "check", "explain", "request",
               "apply", "final", "returned", "done", "raised"}
    /\ it \in 0..(MaxIter + 1)
    /\ current_onto \in FileNames
    /\ \A n \in FileNames : Cardinality(files[n]) <= 1

(***************************************************************************)
(* Deterministic Normalizer: the rdflib graph is a set of triples          *)
(* <<s, p, o>> of terms.  The lexical form of a literal of these graphs    *)
(* is the sequence of its characters (LF is the line feed), a datatype is  *)
(* the string of its IRI ("" for None).  Lit(...) holds the lexical form   *)
(* the code passes to the constructor of rdflib's Literal.                 *)
(***************************************************************************)
\* rdflib Literal(lex, datatype=dt, lang=lang) with lex as characters
Lit(lex, dt, lang) == [k |-> "lit", lex |-> lex, dt |-> dt, lang |-> lang]

str(u) == u.pre \o u.rest

XSD(n) == URIRef("http://", "www.w3.org/2001/XMLSchema#" \o n)

RDF(n) == URIRef("http://", "www.w3.org/1999/02/22-rdf-syntax-ns#" \o n)

RDFS(n) == URIRef("http://", "www.w3.org/2000/01/rdf-schema#" \o n)

OWL(n) == URIRef("http://", "www.w3.org/2002/07/owl#" \o n)

EX(n) == URIRef("http://", "example.org/" \o n)

isURIRef(x) == x.k = "uri"

isLiteral(x) == x.k = "lit"

LF == "\n"

Digits == {"0", "1", "2", "3", "4", "5", "6", "7", "8", "9"}

\* ^\d{4}-\d{2}-\d{2}
DatePrefix(lex) ==
    /\ Len(lex) >= 10
    /\ \A i \in {1, 2, 3, 4, 6, 7, 9, 10} : lex[i] \in Digits
    /\ lex[5] = "-" /\ lex[8] = "-"

\* ([zZ]|[+-]\d{2}:\d{2})?
DateZone(z) ==
    \/ z = <<>>
    \/ z = <<"Z">>
    \/ z = <<"z">>
    \/ /\ Len(z) = 6
       /\ z[1] \in {"+", "-"}
       /\ z[2] \in Digits /\ z[3] \in Digits
       /\ z[4] = ":"
       /\ z[5] \in Digits /\ z[6] \in Digits

\* DATE_LEX_RE.match(lex): `$` also matches before a line feed that ends lex
DATE_LEX_RE(lex) ==
    /\ DatePrefix(lex)
    /\ LET rest == SubSeq(lex, 11, Len(lex)) IN
       \/ DateZone(rest)
       \/ /\ Len(rest) >= 1
          /\ rest[Len(rest)] = LF
          /\ DateZone(SubSeq(rest, 1, Len(rest) - 1))

T000000 == <<"T", "0", "0", ":", "0", "0", ":", "0", "0">>

\* a variant that keeps the lexical form of every literal
date_new_lex_kept(lex) == lex

\* new_lex of lines 187-201
date_new_lex(lex) ==
    IF DATE_LEX_RE(lex)
    THEN IF lex[Len(lex)] \in {"Z", "z"}
         THEN SubSeq(lex, 1, Len(lex) - 1) \o T000000 \o <<"Z">>
         ELSE IF Len(lex) > 10 /\ lex[11] \in {"+", "-"}
         THEN SubSeq(lex, 1, 10) \o T000000 \o SubSeq(lex, 11, Len(lex))
         ELSE SubSeq(lex, 1, 10) \o T000000
    ELSE lex

\* a variant that counts every date-typed literal and retypes the well-formed only
deterministic_fix_xsd_date_to_datetime_wellformed(gr) ==
    LET uris == {t \in gr : isURIRef(t[3]) /\ t[3] = XSD("date")}
        g1 == (gr \ uris) \cup {<<t[1], t[2], XSD("dateTime")>> : t \in uris}
        lits == {t \in g1 : isLiteral(t[3]) /\ t[3].dt = str(XSD("date"))
                               /\ DATE_LEX_RE(t[3].lex)}
        g2 == (g1 \ lits) \cup
              {<<t[1], t[2], Lit(date_new_lex(t[3].lex), str(XSD("dateTime")), "")>> :
                    t \in lits}
    IN [changed |-> Cardinality(uris) + Cardinality({t \in g1 : isLiteral(t[3])
                                                     /\ t[3].dt = str(XSD("date"))}),
        g |-> g2]

\* returns the count of edits and the graph after them
deterministic_fix_xsd_date_to_datetime(gr) ==
    LET uris == {t \in gr : isURIRef(t[3]) /\ t[3] = XSD("date")}
        g1 == (gr \ uris) \cup {<<t[1], t[2], XSD("dateTime")>> : t \in uris}
        lits == {t \in g1 : isLiteral(t[3]) /\ t[3].dt = str(XSD("date"))}
        g2 == (g1 \ lits) \cup
              {<<t[1], t[2], Lit(date_new_lex(t[3].lex), str(XSD("dateTime")), "")>> :
                    t \in lits}
    IN [changed |-> Cardinality(uris) + Cardinality(lits), g |-> g2]

\* the predicates of RDF reification the cleanup removes
ReificationPredicates == {RDF("subject"), RDF("predicate"), RDF("object")}

\* a variant that leaves rdf:object triples in place
deterministic_remove_rdf_reification_triples_two(gr) ==
    LET removed == {t \in gr : t[2] \in {RDF("subject"), RDF("predicate")}}
    IN [changed |-> Cardinality(removed), g |-> gr \ removed]

deterministic_remove_rdf_reification_triples(gr) ==
    LET removed == {t \in gr : t[2] \in ReificationPredicates}
    IN [changed |-> Cardinality(removed), g |-> gr \ removed]

OWL2_DATATYPE_URIS ==
    { str(XSD(n)) : n \in
        { "string", "boolean", "decimal", "float", "double",
          "duration", "dateTime", "time", "date",
          "gYearMonth", "gYear", "gMonthDay", "gDay", "gMonth",
          "hexBinary", "base64Binary",
          "anyURI", "QName", "NOTATION",
          "normalizedString", "token", "language",
          "NMTOKEN", "Name", "NCName",
          "integer", "nonPositiveInteger", "negativeInteger",
          "long", "int", "short", "byte",
          "nonNegativeInteger", "unsignedLong", "unsignedInt",
          "unsignedShort", "unsignedByte",
          "positiveInteger" } }

\* a variant that also rewrites the literals without a datatype
deterministic_fix_unsupported_datatypes_to_string_all(gr) ==
    LET to_change == {t \in gr : isLiteral(t[3]) /\ t[3].dt \notin OWL2_DATATYPE_URIS}
    IN [changed |-> Cardinality(to_change),
        g |-> (gr \ to_change) \cup
              {<<t[1], t[2], Lit(t[3].lex, str(XSD("string")), "")>> : t \in to_change}]

deterministic_fix_unsupported_datatypes_to_string(gr) ==
    LET to_change == {t \in gr : isLiteral(t[3]) /\ t[3].dt # ""
                                  /\ t[3].dt \notin OWL2_DATATYPE_URIS}
    IN [changed |-> Cardinality(to_change),
        g |-> (gr \ to_change) \cup
              {<<t[1], t[2], Lit(t[3].lex, str(XSD("string")), "")>> : t \in to_change}]

\* the IRIs that occur as predicates in the graphs of the model, in the order
\* of sorted(..., key=lambda x: str(x))
sorted_iris ==
    << EX("P"), EX("Q"), EX("R"), EX("created"),
       RDF("object"), RDFS("label") >>

SortKey(u) == CHOOSE i \in 1..Len(sorted_iris) : sorted_iris[i] = u

\* the types the conversion removes from a predicate
ObjectOnlyTypes ==
    { OWL(n) : n \in
        { "ObjectProperty", "DatatypeProperty", "FunctionalProperty",
          "InverseFunctionalProperty", "TransitiveProperty",
          "SymmetricProperty", "AsymmetricProperty",
          "ReflexiveProperty", "IrreflexiveProperty" } }

literal_preds(gr) == {t[2] : t \in {u \in gr : isURIRef(u[2]) /\ isLiteral(u[3])}}

to_convert(gr) ==
    {p \in literal_preds(gr) :
        \/ <<p, RDF("type"), OWL("ObjectProperty")>> \in gr
        \/ \E t \in gr : t[1] = p /\ t[2] = OWL("inverseOf")
        \/ \E t \in gr : t[2] = OWL("inverseOf") /\ t[3] = p
        \/ \E t \in gr : t[1] = p /\ t[2] = OWL("propertyChainAxiom")
        \/ <<p, RDF("type"), OWL("TransitiveProperty")>> \in gr}

\* a variant that keeps the inverse-of triples pointing at p
convert_outgoing(gr, p) ==
    LET types == {t \in gr : t[1] = p /\ t[2] = RDF("type") /\ t[3] \in ObjectOnlyTypes}
        g1 == gr \ types
        ann == {<<p, RDF("type"), OWL("AnnotationProperty")>>} \ g1
        g2 == g1 \cup ann
        inv_out == {t \in g2 : t[1] = p /\ t[2] = OWL("inverseOf")}
        g3 == g2 \ inv_out
        chains == {t \in g3 : t[1] = p /\ t[2] = OWL("propertyChainAxiom")}
    IN [changed |-> Cardinality(types) + Cardinality(ann) + Cardinality(inv_out)
                    + Cardinality(chains),
        g |-> g3 \ chains]

\* the body of the loop `for p in sorted(to_convert, ...)`
convert(gr, p) ==
    LET types == {t \in gr : t[1] = p /\ t[2] = RDF("type") /\ t[3] \in ObjectOnlyTypes}
        g1 == gr \ types
        ann == {<<p, RDF("type"), OWL("AnnotationProperty")>>} \ g1
        g2 == g1 \cup ann
        inv_out == {t \in g2 : t[1] = p /\ t[2] = OWL("inverseOf")}
        g3 == g2 \ inv_out
        inv_in == {t \in g3 : t[2] = OWL("inverseOf") /\ t[3] = p}
        g4 == g3 \ inv_in
        chains == {t \in g4 : t[1] = p /\ t[2] = OWL("propertyChainAxiom")}
    IN [changed |-> Cardinality(types) + Cardinality(ann) + Cardinality(inv_out)
                    + Cardinality(inv_in) + Cardinality(chains),
        g |-> g4 \ chains]

RECURSIVE convert_sorted(_, _, _)
convert_sorted(gr, todo, changed) ==
    IF todo = {} THEN [changed |-> changed, g |-> gr]
    ELSE LET p == CHOOSE x \in todo : \A y \in todo : SortKey(x) <= SortKey(y)
             r == convert(gr, p)
         IN convert_sorted(r.g, todo \ {p}, changed + r.changed)

deterministic_fix_objectprop_literals_to_annotation(gr) ==
    IF literal_preds(gr) = {} THEN [changed |-> 0, g |-> gr]
    ELSE IF to_convert(gr) = {} THEN [changed |-> 0, g |-> gr]
    ELSE convert_sorted(gr, to_convert(gr), 0)

(***************************************************************************)
(* Non-Simple-Property Resolver.                                           *)
(***************************************************************************)
inverse_props(gr, p) ==
    {t[3] : t \in {u \in gr : u[1] = p /\ u[2] = OWL("inverseOf") /\ isURIRef(u[3])}}
    \cup {t[1] : t \in {u \in gr : u[2] = OWL("inverseOf") /\ u[3] = p /\ isURIRef(u[1])}}

super_props(gr, p) ==
    {t[3] : t \in {u \in gr : u[1] = p /\ u[2] = RDFS("subPropertyOf") /\ isURIRef(u[3])}}

sub_props(gr, p) ==
    {t[1] : t \in {u \in gr : u[2] = RDFS("subPropertyOf") /\ u[3] = p /\ isURIRef(u[1])}}

\* The state of related_property_closure inside `for _ in range(depth + 1)`,
\* loop index i, with todo the elements of frontier not yet iterated.  The
\* iteration order of a Python set is not fixed: the result is the set of the
\* values the function can return.
RECURSIVE closure_loop(_, _, _, _, _, _, _)
closure_loop(gr, seen, todo, nxt, i, depth, limit) ==
    IF todo = {}
    THEN IF nxt = {} \/ i = depth
         THEN {seen}
         ELSE closure_loop(gr, seen, nxt, {}, i + 1, depth, limit)
    ELSE UNION { IF p \in seen
                 THEN closure_loop(gr, seen, todo \ {p}, nxt, i, depth, limit)
                 ELSE LET seen2 == seen \cup {p}
                          nxt2 == nxt \cup ((inverse_props(gr, p) \cup super_props(gr, p)
                                              \cup sub_props(gr, p)) \ seen2)
                      IN IF Cardinality(seen2) + Cardinality(nxt2) >= limit
                         THEN {seen2 \cup nxt2}
                         ELSE closure_loop(gr, seen2, todo \ {p}, nxt2, i, depth, limit)
               : p \in todo }

related_property_closure(gr, root, depth, limit) ==
    IF depth + 1 <= 0 THEN {{}}
    ELSE closure_loop(gr, {}, {root}, {}, 0, depth, limit)

\* a variant that removes the transitive type of every property of the graph
remove_non_simple_causes_everywhere(gr, props) ==
    LET removed == {t \in gr :
                      \/ t[2] = RDF("type") /\ t[3] = OWL("TransitiveProperty")
                      \/ t[1] \in props /\ t[2] = OWL("propertyChainAxiom")}
    IN [changed |-> Cardinality(removed), g |-> gr \ removed]

remove_non_simple_causes(gr, props) ==
    LET removed == {t \in gr :
                      /\ t[1] \in props
                      /\ \/ t[2] = RDF("type") /\ t[3] = OWL("TransitiveProperty")
                         \/ t[2] = OWL("propertyChainAxiom")}
    IN [changed |-> Cardinality(removed), g |-> gr \ removed]

\* depth=2, limit=500 of the call in deterministic_fix_non_simple
ClosureDepth == 2

ClosureLimit == 500

\* the outcomes of deterministic_fix_non_simple for the property root
deterministic_fix_non_simple(gr, root) ==
    { remove_non_simple_causes(gr, props) :
        props \in related_property_closure(gr, root, ClosureDepth, ClosureLimit) }

(***************************************************************************)
(* Graphs the Deterministic Normalizer is run on.                          *)
(***************************************************************************)
MaxRuns == 2

MaxDepth == 2

MaxLimit == 3

MaxLoops == 3

IndA == EX("A")

Blank == BNode("b")

\* lexical forms of date literals
D20200102 == <<"2", "0", "2", "0", "-", "0", "1", "-", "0", "2">>

DateLiteral(lex) == Lit(lex, str(XSD("date")), "")

DateTriples ==
    { <<IndA, EX("created"), DateLiteral(D20200102)>>,
      <<IndA, EX("created"), DateLiteral(D20200102 \o <<"z">>)>>,
      <<IndA, EX("created"), DateLiteral(D20200102 \o <<"+", "0", "1", ":", "0", "0">>)>>,
      <<IndA, EX("created"), DateLiteral(<<"J", "a", "n">>)>>,
      <<IndA, EX("created"), DateLiteral(D20200102 \o <<"Z", LF>>)>>,
      <<EX("created"), RDFS("range"), XSD("date")>> }

ReificationTriples ==
    { <<Blank, RDF("subject"), IndA>>,
      <<Blank, RDF("predicate"), EX("created")>>,
      <<Blank, RDF("object"), Lit(<<"x">>, "", "")>>,
      <<Blank, RDF("type"), RDF("Statement")>>,
      <<RDF("object"), RDF("type"), OWL("ObjectProperty")>> }

DatatypeTriples ==
    { <<IndA, RDFS("label"), Lit(<<"x">>, str(EX("custom")), "")>>,
      <<IndA, RDFS("label"), Lit(<<"x">>, str(XSD("string")), "")>>,
      <<IndA, RDFS("label"), Lit(<<"x">>, "", "en")>>,
      <<IndA, RDFS("label"), Lit(<<"x">>, "", "")>>,
      <<IndA, RDFS("label"), Lit(<<"x">>, str(XSD("int")), "")>> }

MetaTriples ==
    { <<IndA, EX("P"), Lit(<<"x">>, "", "")>>,
      <<EX("P"), RDF("type"), OWL("ObjectProperty")>>,
      <<EX("P"), OWL("inverseOf"), EX("Q")>>,
      <<EX("Q"), OWL("inverseOf"), EX("P")>>,
      <<EX("P"), OWL("propertyChainAxiom"), Blank>>,
      <<EX("P"), RDF("type"), OWL("TransitiveProperty")>>,
      <<IndA, EX("R"), Lit(<<"x">>, "", "")>>,
      <<EX("R"), RDF("type"), OWL("FunctionalProperty")>> }

PropertyTriples ==
    { <<EX("P"), OWL("inverseOf"), EX("Q")>>,
      <<EX("R"), RDFS("subPropertyOf"), EX("P")>>,
      <<EX("Q"), RDFS("subPropertyOf"), EX("S")>>,
      <<EX("S"), OWL("inverseOf"), EX("U")>>,
      <<EX("P"), RDF("type"), OWL("TransitiveProperty")>>,
      <<EX("S"), RDF("type"), OWL("TransitiveProperty")>>,
      <<EX("U"), RDF("type"), OWL("TransitiveProperty")>>,
      <<EX("R"), OWL("propertyChainAxiom"), Blank>> }

PassGraphs ==
    (SUBSET DateTriples) \cup (SUBSET ReificationTriples) \cup (SUBSET DatatypeTriples)
        \cup (SUBSET MetaTriples) \cup (SUBSET PropertyTriples)

\* the property a non-simple-property message of HermiT cites
IssueProperties == {EX("P"), EX("U")}

\* an entry of the run history: the pass, the count it returned, the graph before it
Applied(step, changed, before) == [step |-> step, changed |-> changed, before |-> before]

\* the variables of the Patch Loop while the Normalizer runs
PatchIdle ==
    /\ pc = "idle"
    /\ max_iterations = 0
    /\ it = 0
    /\ current_onto = 0
    /\ files = [n \in FileNames |-> {}]
    /\ patch_files = {}
    /\ history = <<>>
    /\ patch = NoPatch
    /\ mode = ""
    /\ attempt = 0
    /\ status_code = 0
    /\ lastRc = 0
    /\ lastOut = <<>>
    /\ lastStatus = ""
    /\ verdicts = <<>>
    /\ reasoned = {}
    /\ nRequests = 0
    /\ result = {}
    /\ result_json = {}
    /\ exc = ""

(***************************************************************************)
(* The passes and the closure, applied on their own to a graph.            *)
(***************************************************************************)
PassInit ==
    /\ PatchIdle
    /\ SendIdle
    /\ SlicerIdle
    /\ npc = "pass"
    /\ graph \in PassGraphs
    /\ applied = <<>>
    /\ loop = 0
    /\ max_loops = 0
    /\ closure = NoClosure
    /\ output_ttl = {}
    /\ hermit_runs = <<>>

RunPass(step, r) ==
    /\ npc = "pass"
    /\ Len(applied) < MaxRuns
    /\ graph' = r.g
    /\ applied' = Append(applied, Applied(step, r.changed, graph))
    /\ UNCHANGED <<npc, loop, max_loops, closure, output_ttl, hermit_runs>>
    /\ UNCHANGED <<vars, svars, lvars>>

RunDate == RunPass(<<"date">>, deterministic_fix_xsd_date_to_datetime(graph))

RunMeta == RunPass(<<"meta">>, deterministic_fix_objectprop_literals_to_annotation(graph))

RunReification == RunPass(<<"reification">>, deterministic_remove_rdf_reification_triples(graph))

RunDatatypes == RunPass(<<"datatypes">>, deterministic_fix_unsupported_datatypes_to_string(graph))

RunResolver ==
    \E root \in IssueProperties :
        \E r \in deterministic_fix_non_simple(graph, root) :
            RunPass(<<"non_simple", root>>, r)

\* related_property_closure called on an input graph
RunClosure ==
    /\ npc = "pass"
    /\ applied = <<>>
    /\ \E root \in IssueProperties, depth \in 0..MaxDepth, limit \in 1..MaxLimit :
        \E props \in related_property_closure(graph, root, depth, limit) :
            closure' = [root |-> root, depth |-> depth, limit |-> limit,
                        props |-> props, called |-> TRUE]
    /\ npc' = "closed"
    /\ UNCHANGED <<graph, applied, loop, max_loops, output_ttl, hermit_runs>>
    /\ UNCHANGED <<vars, svars, lvars>>

PassNext ==
    \/ RunDate
    \/ RunMeta
    \/ RunReification
    \/ RunDatatypes
    \/ RunResolver
    \/ RunClosure

PassSpec == PassInit /\ [][PassNext]_<<vars, nvars, svars, lvars>>

(***************************************************************************)
(* run_deterministic_pipeline: load, the four passes, the HermiT loop,     *)
(* the write of deterministic_fixed.ttl.                                   *)
(***************************************************************************)
strip_owl_imports(gr) ==
    LET imports == {t \in gr : t[2] = OWL("imports")}
    IN [g |-> gr \ imports, removed |-> Cardinality(imports)]

\* the text HermiT prints (words), the non-simple-property message in it
\* (msg, "" for none) and the property the message cites
HermitOutput(words, msg, prop, bracketed) ==
    [words |-> words, msg |-> msg, prop |-> prop, bracketed |-> bracketed]

HermitOutputs ==
    { HermitOutput(<<"ontology", "is", "satisfiable">>, "", Blank, FALSE),
      HermitOutput(<<"inconsistent", "ontology">>, "", Blank, FALSE),
      HermitOutput(<<"is", "not", "satisfiable">>, "", Blank, FALSE),
      HermitOutput(<<"exception">>, "", Blank, FALSE),
      HermitOutput(<<"inconsistent", "ontology">>, "cardinality", EX("P"), TRUE),
      HermitOutput(<<"exception">>, "cardinality", EX("P"), TRUE),
      HermitOutput(<<"exception">>, "irreflexive", EX("U"), FALSE) }

\* ok of run_hermit: "True", "False" or "None"
run_hermit(o) ==
    LET blob == Lower(o.words) IN
    IF OccursIn(<<"inconsistentontologyexception">>, blob)
       \/ OccursIn(<<"inconsistent", "ontology">>, blob)
    THEN "False"
    ELSE IF OccursIn(<<"is", "satisfiable">>, blob) THEN "True"
    ELSE IF OccursIn(<<"unsatisfiable">>, blob) \/ OccursIn(<<"is", "not", "satisfiable">>, blob)
    THEN "False"
    ELSE "None"

NoIssue == [kind |-> "", property_iri |-> Blank]

classify_non_simple_issue(o) ==
    IF o.msg = "cardinality"
    THEN [kind |-> "NON_SIMPLE_PROPERTY_IN_CARDINALITY", property_iri |-> o.prop]
    ELSE IF o.msg = "irreflexive"
    THEN [kind |-> "NON_SIMPLE_PROPERTY_IN_IRREFLEXIVE", property_iri |-> o.prop]
    ELSE NoIssue

MixedTriples ==
    { <<IndA, EX("created"), DateLiteral(D20200102)>>,
      <<EX("created"), RDF("type"), OWL("ObjectProperty")>>,
      <<Blank, RDF("subject"), IndA>>,
      <<Blank, RDF("object"), Lit(<<"x">>, "", "")>>,
      <<RDF("object"), RDF("type"), OWL("ObjectProperty")>>,
      <<IndA, RDFS("label"), Lit(<<"x">>, str(EX("custom")), "")>>,
      <<EX("P"), OWL("inverseOf"), EX("Q")>>,
      <<EX("P"), RDF("type"), OWL("TransitiveProperty")>>,
      <<EX("Q"), RDF("type"), OWL("TransitiveProperty")>> }

PipelineGraphs ==
    { MixedTriples,
      MixedTriples \cup {<<EX("onto"), OWL("imports"), EX("other")>>},
      PropertyTriples,
      {} }

\* a variant in the order date, reification, datatypes, meta
next_pass_listed(step) ==
    CASE step = "date" -> "reification"
      [] step = "reification" -> "datatypes"
      [] step = "datatypes" -> "meta"
      [] step = "meta" -> "hermit"

\* the place in run_deterministic_pipeline after the pass at place step
next_pass(step) ==
    CASE step = "date" -> "meta"
      [] step = "meta" -> "reification"
      [] step = "reification" -> "datatypes"
      [] step = "datatypes" -> "hermit"

PipelineInit ==
    /\ PatchIdle
    /\ SendIdle
    /\ SlicerIdle
    /\ npc = "load"
    /\ graph \in PipelineGraphs
    /\ applied = <<>>
    /\ loop = 0
    /\ max_loops \in 0..MaxLoops
    /\ closure = NoClosure
    /\ output_ttl = {}
    /\ hermit_runs = <<>>

\* lines 497-502
Load ==
    /\ npc = "load"
    /\ \E disable_imports \in BOOLEAN :
          graph' = IF disable_imports THEN strip_owl_imports(graph).g ELSE graph
    /\ npc' = "date"
    /\ UNCHANGED <<applied, loop, max_loops, closure, output_ttl, hermit_runs>>
    /\ UNCHANGED <<vars, svars, lvars>>

\* one of the four passes of lines 504-514, at place step
Pass(step, r) ==
    /\ npc = step
    /\ graph' = r.g
    /\ applied' = Append(applied, Applied(<<step>>, r.changed, graph))
    /\ npc' = IF next_pass(step) = "hermit" /\ max_loops < 1 THEN "save" ELSE next_pass(step)
    /\ UNCHANGED <<loop, max_loops, closure, output_ttl, hermit_runs>>
    /\ UNCHANGED <<vars, svars, lvars>>

DateFix == Pass("date", deterministic_fix_xsd_date_to_datetime(graph))

MetaFix == Pass("meta", deterministic_fix_objectprop_literals_to_annotation(graph))

ReificationCleanup == Pass("reification", deterministic_remove_rdf_reification_triples(graph))

DatatypeFix == Pass("datatypes", deterministic_fix_unsupported_datatypes_to_string(graph))

\* an entry of hermit_runs: ok of run_hermit ("timeout" when run_cmd raised), the
\* issue kind found in the output ("" for none), and changed2 of the Resolver
\* (-1 when it did not run)
HermitCall(ok, kind, changed) == [ok |-> ok, kind |-> kind, changed |-> changed]

\* a variant that stops for a satisfiable verdict only
stops_before_resolver_sat(ok, issue) == ok = "True" \/ issue = NoIssue

\* lines 533-544: the breaks before the Resolver
stops_before_resolver(ok, issue) == ok # "None" \/ issue = NoIssue

\* a variant that goes on whatever the Resolver removed
stops_after_resolver_never(changed2) == FALSE

\* lines 548-550: the break after the Resolver
stops_after_resolver(changed2) == changed2 <= 0

\* one iteration of `for loop in range(1, max_loops + 1)`, lines 519-550
HermitRun ==
    /\ npc = "hermit"
    /\ loop < max_loops
    /\ loop' = loop + 1
    /\ \/ \* subprocess.run raises TimeoutExpired
          /\ npc' = "raised"
          /\ hermit_runs' = Append(hermit_runs, HermitCall("timeout", "", -1))
          /\ UNCHANGED <<graph, applied>>
       \/ \E o \in HermitOutputs :
             LET ok == run_hermit(o)
                 issue == classify_non_simple_issue(o)
             IN IF stops_before_resolver(ok, issue)
                THEN /\ npc' = "save"
                     /\ hermit_runs' = Append(hermit_runs, HermitCall(ok, issue.kind, -1))
                     /\ UNCHANGED <<graph, applied>>
                ELSE \E r \in deterministic_fix_non_simple(graph, issue.property_iri) :
                        /\ graph' = r.g
                        /\ applied' = Append(applied,
                                Applied(<<"non_simple", issue.property_iri>>, r.changed, graph))
                        /\ hermit_runs' = Append(hermit_runs,
                                HermitCall(ok, issue.kind, r.changed))
                        /\ npc' = IF stops_after_resolver(r.changed) \/ loop' >= max_loops
                                  THEN "save" ELSE "hermit"
    /\ UNCHANGED <<max_loops, closure, output_ttl>>
    /\ UNCHANGED <<vars, svars, lvars>>

\* line 552
Save ==
    /\ npc = "save"
    /\ output_ttl' = {graph}
    /\ npc' = "done"
    /\ UNCHANGED <<graph, applied, loop, max_loops, closure, hermit_runs>>
    /\ UNCHANGED <<vars, svars, lvars>>

PipelineNext ==
    \/ Load
    \/ DateFix
    \/ MetaFix
    \/ ReificationCleanup
    \/ DatatypeFix
    \/ HermitRun
    \/ Save

PipelineSpec == PipelineInit /\ [][PipelineNext]_<<vars, nvars, svars, lvars>>

(***************************************************************************)
(* api_utils.send_prompt on its own: one call with its parameters          *)
(* max_retries and wait_time, against a service that answers each request  *)
(* with any status code.  The body of a 200 answer is a chat completion    *)
(* whose content holds the segments between the output markers (blank      *)
(* ones included) and its full text.                                       *)
(***************************************************************************)
MaxSendRetries == 4

WaitTimes == {1, 20}

Content(segments, text) == [segments |-> segments, text |-> text]

Contents ==
    { Content(<<>>, "prose"),
      Content(<<"">>, "blank"),
      Content(<<"a">>, "one"),
      Content(<<"a", "", "b">>, "two") }

\* [m.strip() for m in matches if m.strip()]
extract_between_markers(content) == SelectSeq(content.segments, LAMBDA m : m # "")

RECURSIVE join(_, _)
join(sep, list) ==
    IF Len(list) = 0 THEN <<>>
    ELSE IF Len(list) = 1 THEN <<list[1]>>
    ELSE <<list[1], sep>> \o join(sep, Tail(list))

\* lines 64-75: the string send_prompt returns for a 200 answer
joined(content) ==
    LET extracted == extract_between_markers(content)
    IN join("\n\n", IF extracted = <<>> THEN <<content.text>> ELSE extracted)

Unset == [kind |-> "unset"]

None == [kind |-> "None"]

\* a variant that retries on the last attempt as well
may_retry_last(a, retries) == a <= retries

\* line 78
may_retry(a, retries) == a < retries

SendInit ==
    /\ PatchIdle
    /\ NormalizerIdle
    /\ SlicerIdle
    /\ sp_pc = "call"
    /\ sp_max_retries \in 0..MaxSendRetries
    /\ sp_wait_time \in WaitTimes
    /\ sp_attempt = 0
    /\ sp_codes = <<>>
    /\ sp_slept = 0
    /\ sp_return = Unset

\* line 50: the next value of `for attempt in range(1, max_retries + 1)`, or the
\* end of the function when there is none
SendLoop ==
    /\ sp_pc \in {"call", "next"}
    /\ IF sp_attempt + 1 <= sp_max_retries
       THEN /\ sp_attempt' = sp_attempt + 1
            /\ sp_pc' = "post"
            /\ UNCHANGED sp_return
       ELSE /\ sp_return' = None
            /\ sp_pc' = "returned"
            /\ UNCHANGED sp_attempt
    /\ UNCHANGED <<sp_max_retries, sp_wait_time, sp_codes, sp_slept>>
    /\ UNCHANGED <<vars, nvars, lvars>>

\* lines 51-88: the request and the handling of its answer
SendPost ==
    /\ sp_pc = "post"
    /\ \E code \in StatusCodes :
        /\ sp_codes' = Append(sp_codes, code)
        /\ IF code = 200
           THEN \E content \in Contents :
                   /\ sp_return' = [kind |-> "str", text |-> joined(content)]
                   /\ sp_pc' = "returned"
                   /\ UNCHANGED sp_slept
           ELSE IF code = 429
           THEN IF may_retry(sp_attempt, sp_max_retries)
                THEN /\ sp_slept' = sp_slept + sp_wait_time
                     /\ sp_pc' = "next"
                     /\ UNCHANGED sp_return
                ELSE /\ sp_return' = None
                     /\ sp_pc' = "returned"
                     /\ UNCHANGED sp_slept
           ELSE /\ sp_return' = None
                /\ sp_pc' = "returned"
                /\ UNCHANGED sp_slept
    /\ UNCHANGED <<sp_max_retries, sp_wait_time, sp_attempt>>
    /\ UNCHANGED <<vars, nvars, lvars>>

SendNext ==
    \/ SendLoop
    \/ SendPost

SendSpec == SendInit /\ [][SendNext]_<<vars, nvars, svars, lvars>>

(***************************************************************************)
(* slice_graph: the subgraph around the IRIs of one justification block.   *)
(* The graph is a set of triples of terms as in the Normalizer; seed_iris  *)
(* is a set of strings, split like the JSON strings into the prefix the    *)
(* code tests with startswith and the rest.                                *)
(***************************************************************************)
MaxBnodeDepth == 2

isBNode(x) == x.k = "bnode"

B1 == BNode("b1")

B2 == BNode("b2")

B3 == BNode("b3")

SecureY == URIRef("https://", "example.org/Y")

UrnC == URIRef("urn:", "c")

SliceTriples ==
    { <<IndA, EX("p"), B1>>,
      <<B1, EX("p"), B2>>,
      <<B3, EX("p"), B2>>,
      <<B3, EX("p"), EX("X")>>,
      <<B1, RDF("type"), EX("X")>>,
      <<EX("X"), RDFS("subClassOf"), SecureY>>,
      <<IndA, RDFS("subClassOf"), EX("X")>>,
      <<UrnC, EX("p"), EX("X")>>,
      <<B2, EX("p"), Lit(<<"x">>, "", "")>> }

SliceGraphs == SUBSET SliceTriples

SeedStrings ==
    { Str("http://", "example.org/A"), Str("https://", "example.org/Y"),
      Str("urn:", "c"), Str("_:", "b1") }

\* line 789: {URIRef(u) for u in seed_iris if u.startswith(("http://", "https://"))}
seeds_of(iris) ==
    {URIRef(u.pre, u.rest) : u \in {v \in iris : v.pre \in {"http://", "https://"}}}

\* lines 830-834
schema_preds ==
    { RDF("type"), RDFS("subClassOf"), RDFS("domain"), RDFS("range"),
      OWL("disjointWith"), OWL("equivalentClass"), OWL("equivalentProperty"),
      OWL("inverseOf"), OWL("propertyChainAxiom") }

\* a variant that follows every unseen neighbour, blank node or not
joins_frontier_any(n, seen) == n \notin seen

\* lines 818 and 823: `isinstance(o, BNode) and o not in seen`
joins_frontier(n, seen) == isBNode(n) /\ n \notin seen

\* lines 811-824, the body of one pass of the while loop: the possible
\* (seen, out, new_frontier) after the nodes of todo were visited in some
\* order (frontier is a set, its iteration order is not fixed)
RECURSIVE expand_nodes(_, _, _, _, _)
expand_nodes(g, todo, seen, out, new_frontier) ==
    IF todo = {} THEN {[seen |-> seen, out |-> out, new_frontier |-> new_frontier]}
    ELSE UNION {
        IF node \in seen
        THEN expand_nodes(g, todo \ {node}, seen, out, new_frontier)
        ELSE LET seen2 == seen \cup {node}
                 outgoing == {t \in g : t[1] = node}
                 incoming == {t \in g : t[3] = node}
                 nf == new_frontier
                          \cup {t[3] : t \in {u \in outgoing : joins_frontier(u[3], seen2)}}
                          \cup {t[1] : t \in {u \in incoming : joins_frontier(u[1], seen2)}}
             IN expand_nodes(g, todo \ {node}, seen2, out \cup outgoing \cup incoming, nf)
        : node \in todo }

SliceInit ==
    /\ PatchIdle
    /\ NormalizerIdle
    /\ SendIdle
    /\ ReportIdle
    /\ sl_pc = "seed"
    /\ sl_g \in SliceGraphs
    /\ seed_iris \in SUBSET SeedStrings
    /\ bnode_depth \in 0..MaxBnodeDepth
    /\ sl_out = {}
    /\ sl_frontier = {}
    /\ sl_seen = {}
    /\ sl_depth = 0

\* lines 789-808: the triples about a seed, and the first frontier
SeedStep ==
    /\ sl_pc = "seed"
    /\ LET seeds == seeds_of(seed_iris)
           hits == {t \in sl_g : t[1] \in seeds \/ t[3] \in seeds}
       IN /\ sl_out' = hits
          /\ sl_frontier' = seeds \cup {t[1] : t \in {u \in hits : isBNode(u[1])}}
                                  \cup {t[3] : t \in {u \in hits : isBNode(u[3])}}
    /\ sl_pc' = "expand"
    /\ UNCHANGED <<sl_g, seed_iris, bnode_depth, sl_seen, sl_depth>>
    /\ UNCHANGED <<rp_pc, blocks, report, target_iris, evidence_iris>>
    /\ UNCHANGED <<vars, nvars, svars>>

\* lines 809-827: one pass of `while depth < bnode_depth`
ExpandStep ==
    /\ sl_pc = "expand"
    /\ sl_depth < bnode_depth
    /\ \E r \in expand_nodes(sl_g, sl_frontier, sl_seen, sl_out, {}) :
        /\ sl_seen' = r.seen
        /\ sl_out' = r.out
        /\ sl_frontier' = r.new_frontier
    /\ sl_depth' = sl_depth + 1
    /\ UNCHANGED <<sl_pc, sl_g, seed_iris, bnode_depth>>
    /\ UNCHANGED <<rp_pc, blocks, report, target_iris, evidence_iris>>
    /\ UNCHANGED <<vars, nvars, svars>>

\* lines 829-842: the schema predicates around the seeds, and the return
SchemaStep ==
    /\ sl_pc = "expand"
    /\ ~(sl_depth < bnode_depth)
    /\ LET seeds == seeds_of(seed_iris) IN
       sl_out' = sl_out
                    \cup {t \in sl_g : t[1] \in seeds /\ t[2] \in schema_preds}
                    \cup {t \in sl_g : t[3] \in seeds /\ t[2] \in schema_preds}
    /\ sl_pc' = "returned"
    /\ UNCHANGED <<sl_g, seed_iris, bnode_depth, sl_frontier, sl_seen, sl_depth>>
    /\ UNCHANGED <<rp_pc, blocks, report, target_iris, evidence_iris>>
    /\ UNCHANGED <<vars, nvars, svars>>

SliceNext ==
    \/ SeedStep
    \/ ExpandStep
    \/ SchemaStep

SliceSpec == SliceInit /\ [][SliceNext]_<<vars, nvars, svars, lvars>>

(***************************************************************************)
(* The Slicer's report and the target identifiers of the Patch Loop.  An   *)
(* IRI is a number here; the order of the numbers stands for the order     *)
(* sorted() puts the strings in.                                           *)
(***************************************************************************)
MaxBlocks == 2

\* `sorted(list(blk.iris))[:30]`
ReportIrisCap == 30

\* the referenced-IRI sets a justification block can have
BlockIris == { {}, {1}, {2, 3}, 1..ReportIrisCap, 1..(ReportIrisCap + 1), 3..(ReportIrisCap + 3) }

RECURSIVE sorted(_)
sorted(S) ==
    IF S = {} THEN <<>>
    ELSE LET m == CHOOSE x \in S : \A y \in S : x <= y
         IN <<m>> \o sorted(S \ {m})

\* list[:n]
Take(list, n) == SubSeq(list, 1, IF Len(list) < n THEN Len(list) ELSE n)

\* lines 899-908: the entry of one block in report["blocks"]
report_block(i, iris) ==
    [index |-> i, num_iris |-> Cardinality(iris), iris |-> Take(sorted(iris), ReportIrisCap)]

\* load_problem_iris on the "blocks" list read back from report.json
load_problem_iris(rep) ==
    UNION { {rep[i].iris[j] : j \in 1..Len(rep[i].iris)} : i \in 1..Len(rep) }

ReportInit ==
    /\ PatchIdle
    /\ NormalizerIdle
    /\ SendIdle
    /\ SliceIdle
    /\ rp_pc = "extract"
    /\ \E n \in 0..MaxBlocks : blocks \in [1..n -> BlockIris]
    /\ report = {}
    /\ target_iris = {}
    /\ evidence_iris = <<>>

\* extract_problem_slices, lines 883-912: report.json
WriteReport ==
    /\ rp_pc = "extract"
    /\ report' = {[i \in 1..Len(blocks) |-> report_block(i, blocks[i])]}
    /\ rp_pc' = "load"
    /\ UNCHANGED <<blocks, target_iris, evidence_iris>>
    /\ UNCHANGED <<sl_pc, sl_g, seed_iris, bnode_depth, sl_out, sl_frontier, sl_seen, sl_depth>>
    /\ UNCHANGED <<vars, nvars, svars>>

\* llm_fix_by_target_iris, line 1152: target_iris = load_problem_iris(report_json_path)
LoadProblemIris ==
    /\ rp_pc = "load"
    /\ target_iris' = load_problem_iris(CHOOSE rep \in report : TRUE)
    /\ rp_pc' = "loop"
    /\ UNCHANGED <<blocks, report, evidence_iris>>
    /\ UNCHANGED <<sl_pc, sl_g, seed_iris, bnode_depth, sl_out, sl_frontier, sl_seen, sl_depth>>
    /\ UNCHANGED <<vars, nvars, svars>>

\* line 1188 in one iteration of the loop:
\* build_targeted_evidence(current_onto, target_iris, ...)
BuildEvidence ==
    /\ rp_pc = "loop"
    /\ Len(evidence_iris) < MaxIter
    /\ evidence_iris' = Append(evidence_iris, target_iris)
    /\ UNCHANGED <<rp_pc, blocks, report, target_iris>>
    /\ UNCHANGED <<sl_pc, sl_g, seed_iris, bnode_depth, sl_out, sl_frontier, sl_seen, sl_depth>>
    /\ UNCHANGED <<vars, nvars, svars>>

ReportNext ==
    \/ WriteReport
    \/ LoadProblemIris
    \/ BuildEvidence

ReportSpec == ReportInit /\ [][ReportNext]_<<vars, nvars, svars, lvars>>

(***************************************************************************)
(* apply_patch_to_ttl on its own: a chain of snapshots, each made from the *)
(* one before by one reply that passed validate_patch_one_op.  The replies *)
(* include strings that are neither "_:"-prefixed nor http(s) (a prefixed  *)
(* name, a bare word) and literal objects in the place of s and p.         *)
(***************************************************************************)
PlainA == Str("", "ex:A")

PlainSubClassOf == Str("", "rdfs:subClassOf")

PlainPatches ==
    { OnePatch([op |-> "add_triple", triple |-> [s |-> PlainA, p |-> PSubClassOf, o |-> ClsB]]),
      OnePatch([op |-> "add_triple", triple |-> [s |-> ClsA, p |-> PlainSubClassOf, o |-> ClsB]]),
      OnePatch([op |-> "replace_triple", old |-> JEquiv,
                new |-> [s |-> [literal |-> "a", lang |-> "en"], p |-> PLabel, o |-> ClsA]]),
      OnePatch([op |-> "delete_triple", triple |-> [s |-> PlainA, p |-> PSubClassOf, o |-> ClsB]]) }

\* the term is an absolute URI or a blank node
IsIdentifier(n) == n.k \in {"uri", "bnode"}

\* the data model: subject and predicate of every triple are identifiers
DataModel(g) == \A t \in g : IsIdentifier(t[1]) /\ IsIdentifier(t[2])

ApplyInit ==
    /\ PatchIdle
    /\ NormalizerIdle
    /\ SendIdle
    /\ SlicerIdle

ApplyStart ==
    /\ pc = "idle"
    /\ pc' = "apply_patch"
    /\ \E g \in InputGraphs : files' = [files EXCEPT ![0] = {g}]
    /\ UNCHANGED <<max_iterations, it, current_onto, patch_files, history, patch,
                   mode, attempt, status_code, lastRc, lastOut, lastStatus, verdicts,
                   reasoned, nRequests, result, result_json, exc>>
    /\ UNCHANGED <<nvars, svars, lvars>>

\* one call apply_patch_to_ttl(current_onto, iter_{it+1}.ttl, patch); whether
\* the Turtle parser reads back a snapshot that has a literal as subject or
\* predicate is left open
ApplyValidated ==
    /\ pc = "apply_patch"
    /\ it < MaxIter + 1
    /\ \E p \in Patches \cup PlainPatches, parses \in BOOLEAN :
        LET r == apply_patch_to_ttl(files, current_onto, it + 1, p) IN
        /\ patch' = p
        /\ parses \/ DataModel(load_turtle_graph(files, current_onto))
        /\ IF r.exc = "" /\ parses
           THEN /\ files' = r.files
                /\ current_onto' = it + 1
                /\ it' = it + 1
                /\ exc' = ""
           ELSE /\ exc' = (IF r.exc = "" THEN "BadSyntax" ELSE r.exc)
                /\ UNCHANGED <<files, current_onto, it>>
    /\ UNCHANGED <<pc, max_iterations, patch_files, history,
                   mode, attempt, status_code, lastRc, lastOut, lastStatus, verdicts,
                   reasoned, nRequests, result, result_json>>
    /\ UNCHANGED <<nvars, svars, lvars>>

ApplyNext ==
    \/ ApplyStart
    \/ ApplyValidated

ApplySpec == ApplyInit /\ [][ApplyNext]_<<vars, nvars, svars, lvars>>

(***************************************************************************)
(* Properties.                                                             *)
(***************************************************************************)
Terminal == pc \in {"done", "raised"}

ResultStatuses == {"coherent", "robot_reason_error", "max_iterations_reached"}

\* steps one pass of the loop body can still take, send_prompt's retries included
BodySteps == MaxRetries + 3

\* an upper bound on the steps main() can still take from the current state
Measure ==
    CASE pc = "main_reason" -> max_iterations * BodySteps + 5
      [] pc = "slices" -> max_iterations * BodySteps + 4
      [] pc = "llm_gate" -> max_iterations * BodySteps + 3
      [] pc = "check" -> (max_iterations - it) * BodySteps + BodySteps + 2
      [] pc = "explain" -> (max_iterations - it) * BodySteps + (BodySteps - 1) + 2
      [] pc = "request" -> (max_iterations - it) * BodySteps + (MaxRetries - attempt + 2) + 2
      [] pc = "apply" -> (max_iterations - it) * BodySteps + 1 + 2
      [] pc = "final" -> 2
      [] pc = "returned" -> 1
      [] OTHER -> 0

C1_Bounded ==
    /\ nRequests <= max_iterations
    /\ Len(verdicts) <= max_iterations + 1
    /\ \A r \in result : r.status \in ResultStatuses
    /\ Measure >= 0
    /\ ~Terminal => ENABLED Next

\* C1: the Patch Loop makes at most max_iterations patch requests and at
\* most max_iterations + 1 coherence checks, every result it returns has
\* status coherent, robot_reason_error or max_iterations_reached, and the
\* run terminates: every step strictly decreases a natural-number measure
\* and only a finished run has no next step.
C1_Terminates == [](C1_Bounded) /\ [][Measure' < Measure]_vars

C1_Witness ==
    /\ pc = "returned"
    /\ max_iterations = MaxIter
    /\ nRequests = max_iterations
    /\ Len(verdicts) = max_iterations + 1
    /\ \E r \in result : r.status = "max_iterations_reached"

AlwaysIncoherent == \A i \in 1..Len(verdicts) : verdicts[i] = "incoherent"

\* every snapshot a patch produced holds the graph of the input ontology
NoOpPatches == \A i \in 1..Len(history) : files[history[i].ontology_path] = files[0]

\* C2: when every patch leaves the graph unchanged and every coherence
\* check answers Incoherent, the loop never starts more than max_iterations
\* iterations and its result has status max_iterations_reached, iterations =
\* max_iterations and exactly max_iterations history records.
C2_IterationBudget ==
    (AlwaysIncoherent /\ NoOpPatches) =>
        /\ it <= max_iterations
        /\ Len(history) <= max_iterations
        /\ \A r \in result :
            /\ r.status = "max_iterations_reached"
            /\ r.iterations = max_iterations
            /\ Len(r.history) = max_iterations
            /\ nRequests = max_iterations

C2_Witness ==
    /\ result # {}
    /\ AlwaysIncoherent
    /\ NoOpPatches
    /\ max_iterations = MaxIter
    /\ \A i \in 1..Len(history) : history[i].operations = <<OpAddSub>>
    /\ Len(history) = MaxIter

\* the checks answered Incoherent k times and then Coherent
BecameCoherentAfter(k) ==
    /\ Len(verdicts) = k + 1
    /\ \A i \in 1..k : verdicts[i] = "incoherent"
    /\ verdicts[k + 1] = "coherent"

\* C3: if the coherence checks answer Incoherent k times and then Coherent
\* (k <= max_iterations), the result is coherent with iterations = k and
\* exactly k history records, record i being iteration i; for k = 1 with a
\* reply deleting the offending triple, the one record's operations are that
\* delete_triple and the final snapshot is the input graph without the triple.
C3_CoherentAfterK ==
    \A k \in 0..max_iterations :
        (result # {} /\ BecameCoherentAfter(k)) =>
            \A r \in result :
                /\ r.status = "coherent"
                /\ r.iterations = k
                /\ Len(r.history) = k
                /\ \A i \in 1..k : r.history[i].iteration = i
                /\ (k = 1 /\ patch = OnePatch(OpDelete)) =>
                        /\ r.history[1].operations = <<OpDelete>>
                        /\ files[r.final_ontology] = {g \ {TEquiv} : g \in files[0]}

C3_Witness ==
    /\ result # {}
    /\ BecameCoherentAfter(1)
    /\ max_iterations = 2
    /\ \E r \in result : r.history[1].operations = <<OpDelete>>
    /\ patch = OnePatch(OpDelete)
    /\ TEquiv \in load_turtle_graph(files, 0)

\* the step ends a pass of the loop body: a return, an exception, or the
\* end of the body after the patch was applied
IterationStops == pc \in {"check", "explain", "request"} /\ pc' \in {"returned", "raised"}

IterationFails == pc = "apply" /\ pc' = "raised"

IterationApplies == pc = "apply" /\ pc' \in {"check", "final"}

\* C4 as stated: every iteration appends one IterationRecord whatever its outcome.
C4_Original ==
    [][(IterationStops \/ IterationFails \/ IterationApplies)
            => Len(history') = Len(history) + 1]_vars

\* C4 as amended: an iteration that applies its patch appends exactly one
\* IterationRecord (its own: iteration = it, the operations of the reply,
\* the snapshot it wrote); an iteration that stops on Coherent or ToolError
\* or fails in explain, the request or the patch validation appends none,
\* and no other step changes the history.
C4_Amended ==
    [][/\ IterationApplies =>
            /\ Len(history') = Len(history) + 1
            /\ SubSeq(history', 1, Len(history)) = history
            /\ history'[Len(history')].iteration = it
            /\ history'[Len(history')].operations = patch.operations
            /\ history'[Len(history')].ontology_path = current_onto'
       /\ ~IterationApplies => history' = history]_vars

C4_Witness ==
    /\ pc = "returned"
    /\ Len(verdicts) = 3
    /\ Len(history) = 2
    /\ verdicts[3] = "error"
    /\ max_iterations = 3

\* C5 as stated: a failure inside a Patch Loop iteration is recorded in the
\* final result of the run.
C5_FailureRecorded == (pc = "raised" /\ it >= 1) => (result # {} /\ result_json # {})

\* the language-model call gave up: its last allowed attempt was answered 429
RetryCapReached == status_code = 429 /\ attempt = MaxRetries /\ pc # "request"

\* the loop used up its iterations: the check after the loop has run
IterationCapReached == Len(verdicts) = max_iterations + 1

\* C6 as stated: reaching the iteration cap or the retry cap ends the Patch
\* Loop with a result carrying a terminal status, never with an exception.
C6_ExhaustionIsStatus ==
    (IterationCapReached \/ RetryCapReached) =>
        (exc = "" /\ \E r \in result : r.status \in ResultStatuses)

\* C7: a reply that fails validation is rejected before anything is written:
\* the step raises, every snapshot file keeps its content and no iter_i file
\* appears.
C7_RejectedBeforeMutation ==
    [][(pc = "apply" /\ patch \in InvalidPatches) => (pc' = "raised" /\ files' = files)]_vars

C7_Witness ==
    /\ pc = "raised"
    /\ patch = [operations |-> <<OpDelete, OpAddSub>>, rationale |-> "r"]
    /\ it = 2
    /\ files[2] = {}
    /\ files[1] # {}

\* C8: no step writes a snapshot that a coherence check has read; the only
\* file a step writes is the iter_i of the running iteration, which did not
\* exist before.
C8_SnapshotsImmutable ==
    [][\A f \in FileNames :
            files'[f] # files[f] =>
                /\ f \notin reasoned
                /\ files[f] = {}
                /\ pc = "apply" /\ f = it /\ f # 0]_vars

C8_Witness ==
    /\ pc = "returned"
    /\ reasoned = {0, 1, 2}
    /\ files[1] # files[0]
    /\ files[2] # files[1]
    /\ files[2] # {}

\* C9 as stated: every terminal outcome of main() is captured in a structured
\* result object.
C9_OutcomeCaptured == Terminal => result_json # {}

\* C10: the Coherence Diagnostic answers Coherent exactly when the reason
\* process exited with code 0, whatever its output holds.
C10_CoherentIffExitZero == lastStatus # "" => (lastStatus = "coherent" <=> lastRc = 0)

C10_Witness ==
    /\ lastRc = 0
    /\ lastOut = <<"Unsatisfiable", "class", "Exception">>
    /\ lastStatus = "coherent"

\* C11 (as stated): on a non-zero exit, an output that contains one of the words
\* inconsistent, unsatisfiable, incoherent is classified "incoherent".
IncoherenceWords == { <<"inconsistent">>, <<"unsatisfiable">>, <<"incoherent">> }

C11_Original ==
    (lastStatus # "" /\ lastRc # 0
        /\ \E w \in IncoherenceWords : OccursIn(w, Lower(lastOut)))
    => lastStatus = "incoherent"

\* C11 (amended): on a non-zero exit, an output that contains the phrase
\* "ontology is inconsistent" or one of the words unsatisfiable, incoherent is
\* classified "incoherent", also when tool-error vocabulary occurs in it.
IncoherencePhrases ==
    { <<"ontology", "is", "inconsistent">>, <<"unsatisfiable">>, <<"incoherent">> }

C11_Amended ==
    (lastStatus # "" /\ lastRc # 0
        /\ \E w \in IncoherencePhrases : OccursIn(w, Lower(lastOut)))
    => lastStatus = "incoherent"

\* an incoherence word and a tool-error word in the same output of a failed run
C11_Witness ==
    /\ lastRc # 0
    /\ OccursIn(<<"unsatisfiable">>, Lower(lastOut))
    /\ OccursIn(<<"exception">>, Lower(lastOut))
    /\ lastStatus = "incoherent"

\* C12: "incoherent" is returned only for a non-zero exit whose output holds an
\* incoherence signal, and a non-zero exit whose output holds neither an
\* incoherence signal nor a tool-error signal is classified "error".
ToolErrorWords ==
    { <<"exception">>, <<"stacktrace">>, <<"parse">>, <<"owlapi">>,
      <<"failed", "to">>, <<"could", "not">>, <<"illegalargument">>,
      <<"nullpointer">>, <<"not", "found">>, <<"no", "such", "file">>,
      <<"unsupported">> }

C12_FailSafe ==
    /\ lastStatus = "incoherent" =>
          (lastRc # 0 /\ \E w \in IncoherencePhrases : OccursIn(w, Lower(lastOut)))
    /\ (lastStatus # "" /\ lastRc # 0
          /\ (\A w \in IncoherencePhrases : ~ OccursIn(w, Lower(lastOut)))
          /\ (\A e \in ToolErrorWords : ~ OccursIn(e, Lower(lastOut))))
       => lastStatus = "error"

\* a failed run that printed nothing
C12_Witness == lastRc # 0 /\ lastOut = <<>> /\ lastStatus = "error"

(***************************************************************************)
(* Properties of the Normalizer passes (PassSpec).                         *)
(***************************************************************************)
\* the graph after the i-th run of the history
After(i) == IF i = Len(applied) THEN graph ELSE applied[i + 1].before

Runs(step) == {i \in 1..Len(applied) : applied[i].step = step}

IsDateLiteral(x) == x.k = "lit" /\ x.dt = "http://www.w3.org/2001/XMLSchema#date"

DateTimeLiteral(lex) == Lit(lex, "http://www.w3.org/2001/XMLSchema#dateTime", "")

\* YYYY-MM-DD
IsYMD(lex) ==
    /\ Len(lex) >= 10
    /\ \A i \in {1, 2, 3, 4, 6, 7, 9, 10} : lex[i] \in Digits
    /\ lex[5] = "-" /\ lex[8] = "-"

\* the characters after YYYY-MM-DD
Suffix(lex) == SubSeq(lex, 11, Len(lex))

IsZone(z) ==
    \/ z \in {<<>>, <<"Z">>, <<"z">>}
    \/ /\ Len(z) = 6
       /\ z[1] \in {"+", "-"} /\ z[4] = ":"
       /\ \A i \in {2, 3, 5, 6} : z[i] \in Digits

\* lex is YYYY-MM-DDT00:00:00 followed by zone
IsMidnight(lex, zone) ==
    /\ IsYMD(lex)
    /\ Len(lex) >= 19
    /\ SubSeq(lex, 11, 19) = <<"T", "0", "0", ":", "0", "0", ":", "0", "0">>
    /\ SubSeq(lex, 20, Len(lex)) = zone

C15_DateIdempotent ==
    \A i \in Runs(<<"date">>) :
        (i + 1) \in Runs(<<"date">>) =>
            /\ applied[i + 1].changed = 0
            /\ After(i + 1) = applied[i + 1].before

\* two date passes in a row, the first of which changed literals and a range
C15_Witness ==
    \E i \in Runs(<<"date">>) :
        /\ (i + 1) \in Runs(<<"date">>)
        /\ applied[i].changed >= 3
        /\ \E t \in applied[i].before : IsDateLiteral(t[3]) /\ ~IsYMD(t[3].lex)

IsReification(t) ==
    /\ t[2].k = "uri"
    /\ t[2].pre \o t[2].rest \in
          { "http://www.w3.org/1999/02/22-rdf-syntax-ns#subject",
            "http://www.w3.org/1999/02/22-rdf-syntax-ns#predicate",
            "http://www.w3.org/1999/02/22-rdf-syntax-ns#object" }

\* C16: after the reification cleanup no rdf:subject / rdf:predicate / rdf:object
\* triple remains, every other triple is kept and none is added, the count is the
\* number of triples removed, and a cleanup run directly after it returns 0.
C16_ReificationRemoved ==
    \A i \in Runs(<<"reification">>) :
        /\ \A t \in After(i) : ~IsReification(t)
        /\ After(i) = {t \in applied[i].before : ~IsReification(t)}
        /\ applied[i].changed = Cardinality(applied[i].before \ After(i))
        /\ (i + 1) \in Runs(<<"reification">>) => applied[i + 1].changed = 0

\* two cleanups in a row, the first of which removed the three kinds of triple
C16_Witness ==
    \E i \in Runs(<<"reification">>) :
        /\ (i + 1) \in Runs(<<"reification">>)
        /\ applied[i].changed = 3
        /\ After(i) # {}

\* the literal the datatype pass must leave in the place of x
Coerced(x) ==
    IF x.k = "lit" /\ x.dt # "" /\ x.dt \notin OWL2_DATATYPE_URIS
    THEN [x EXCEPT !.dt = "http://www.w3.org/2001/XMLSchema#string"]
    ELSE x

\* C17: after the unsupported-datatype pass every literal whose datatype was outside
\* the allow-list is replaced by a string-typed literal of the same lexical form,
\* and every other triple (allow-listed datatype, plain, language-tagged) is as before.
C17_DatatypesCoerced ==
    \A i \in Runs(<<"datatypes">>) :
        /\ After(i) = {<<t[1], t[2], Coerced(t[3])>> : t \in applied[i].before}
        /\ \A t \in applied[i].before :
              (t[3].k = "lit" /\ (t[3].dt = "" \/ t[3].dt \in OWL2_DATATYPE_URIS))
                  => t \in After(i)
        /\ \A t \in After(i) :
              t[3].k = "lit" => (t[3].dt = "" \/ t[3].dt \in OWL2_DATATYPE_URIS)

\* a pass over a custom-typed, a language-tagged, a plain and an int literal
C17_Witness ==
    \E i \in Runs(<<"datatypes">>) :
        /\ applied[i].changed = 1
        /\ \E t \in applied[i].before : t[3].k = "lit" /\ t[3].lang = "en"
        /\ \E t \in applied[i].before : t[3].k = "lit" /\ t[3].dt = "" /\ t[3].lang = ""
        /\ \E t \in applied[i].before :
              t[3].k = "lit" /\ t[3].dt = "http://www.w3.org/2001/XMLSchema#int"
        /\ \E t \in applied[i].before :
              t[3].k = "lit" /\ t[3].dt = "http://example.org/custom"

UsedWithLiteral(gr, p) == \E t \in gr : t[2] = p /\ t[3].k = "lit"

\* p has one of the object-property-only characteristics in gr
ObjectOnly(gr, p) ==
    \/ <<p, RDF("type"), OWL("ObjectProperty")>> \in gr
    \/ <<p, RDF("type"), OWL("TransitiveProperty")>> \in gr
    \/ \E t \in gr : t[2] = OWL("inverseOf") /\ (t[1] = p \/ t[3] = p)
    \/ \E t \in gr : t[2] = OWL("propertyChainAxiom") /\ t[1] = p

\* the triples that have p as subject or object
About(gr, p) == {t \in gr : t[1] = p \/ t[3] = p}

\* C18: after the reclassification pass every predicate that was used with a literal
\* and had an object-property-only characteristic has the annotation-property type
\* and none of these characteristics; a predicate that was used with a literal and
\* had none keeps its triples.
C18_Reclassified ==
    \A i \in Runs(<<"meta">>) :
        \A p \in {t[2] : t \in applied[i].before} :
            UsedWithLiteral(applied[i].before, p) =>
                IF ObjectOnly(applied[i].before, p)
                THEN /\ <<p, RDF("type"), OWL("AnnotationProperty")>> \in After(i)
                     /\ ~ObjectOnly(After(i), p)
                ELSE About(After(i), p) = About(applied[i].before, p)

\* a pass that converted P, named only as the object of an inverse-of triple and
\* used with a literal, and left R, functional and used with a literal, alone
C18_Witness ==
    \E i \in Runs(<<"meta">>) :
        /\ <<EX("Q"), OWL("inverseOf"), EX("P")>> \in applied[i].before
        /\ <<EX("P"), OWL("inverseOf"), EX("Q")>> \notin applied[i].before
        /\ <<EX("P"), RDF("type"), OWL("ObjectProperty")>> \notin applied[i].before
        /\ UsedWithLiteral(applied[i].before, EX("P"))
        /\ UsedWithLiteral(applied[i].before, EX("R"))
        /\ <<EX("R"), RDF("type"), OWL("FunctionalProperty")>> \in After(i)
        /\ <<EX("P"), RDF("type"), OWL("AnnotationProperty")>> \in After(i)

\* p and q are related by inverse-of, subproperty-of or superproperty-of
Related(gr, p, q) ==
    /\ q.k = "uri"
    /\ \/ <<p, OWL("inverseOf"), q>> \in gr
       \/ <<q, OWL("inverseOf"), p>> \in gr
       \/ <<p, RDFS("subPropertyOf"), q>> \in gr
       \/ <<q, RDFS("subPropertyOf"), p>> \in gr

Terms(gr) == {t[1] : t \in gr} \cup {t[3] : t \in gr}

\* the properties reachable from root in at most n steps
RECURSIVE Reach(_, _, _)
Reach(gr, root, n) ==
    IF n = 0 THEN {root}
    ELSE LET r == Reach(gr, root, n - 1)
         IN r \cup {q \in Terms(gr) : \E p \in r : Related(gr, p, q)}

IsCause(t) ==
    \/ t[2] = RDF("type") /\ t[3] = OWL("TransitiveProperty")
    \/ t[2] = OWL("propertyChainAxiom")

\* C19: a run of the resolver for P removes P's transitive type, removes only
\* transitive-type and property-chain triples whose subject is within two steps of
\* P, adds nothing, and returns the number of triples it removed.
C19_ResolverFrame ==
    \A i \in 1..Len(applied) :
        \A root \in IssueProperties :
            applied[i].step = <<"non_simple", root>> =>
                /\ <<root, RDF("type"), OWL("TransitiveProperty")>> \notin After(i)
                /\ After(i) \subseteq applied[i].before
                /\ \A t \in applied[i].before \ After(i) :
                      IsCause(t) /\ t[1] \in Reach(applied[i].before, root, 2)
                /\ applied[i].changed = Cardinality(applied[i].before \ After(i))

\* a run for P that removed the transitive types of P and of S, two steps away,
\* and kept the one of U, three steps away
C19_Witness ==
    \E i \in 1..Len(applied) :
        /\ applied[i].step = <<"non_simple", EX("P")>>
        /\ applied[i].changed = 2
        /\ <<EX("P"), RDF("type"), OWL("TransitiveProperty")>> \in applied[i].before
        /\ <<EX("S"), RDF("type"), OWL("TransitiveProperty")>> \in applied[i].before \ After(i)
        /\ <<EX("U"), RDF("type"), OWL("TransitiveProperty")>> \in After(i)
        /\ EX("U") \in Reach(applied[i].before, EX("P"), 3)

\* C20: the set related_property_closure returns holds the root and only
\* properties reachable from the root in at most depth steps.
C20_DepthRespected ==
    closure.called =>
        /\ closure.root \in closure.props
        /\ closure.props \subseteq Reach(graph, closure.root, closure.depth)

(***************************************************************************)
(* Properties of run_deterministic_pipeline (PipelineSpec).                *)
(***************************************************************************)
IsPrefix(s, t) == Len(s) <= Len(t) /\ \A i \in 1..Len(s) : s[i] = t[i]

\* the four passes run so far, in order
PassesRun == [i \in 1..(IF Len(applied) < 4 THEN Len(applied) ELSE 4) |-> applied[i].step[1]]

\* C13 (as stated): the passes run in the order date coercion, reification cleanup,
\* datatype coercion, object-property reclassification.
C13_Original ==
    npc \notin {"idle", "pass", "closed"} =>
        IsPrefix(PassesRun, <<"date", "reification", "datatypes", "meta">>)

\* C13 (amended): the passes run in the order date coercion, object-property
\* reclassification, reification cleanup, datatype coercion, all four before the
\* first reasoner run and before the output is written.
C13_Amended ==
    npc \notin {"idle", "pass", "closed"} =>
        /\ IsPrefix(PassesRun, <<"date", "meta", "reification", "datatypes">>)
        /\ npc \in {"hermit", "save", "done", "raised"} => Len(PassesRun) = 4

\* a finished run in which each of the four passes changed the graph
C13_Witness ==
    /\ npc = "done"
    /\ Len(applied) >= 4
    /\ \A i \in 1..4 : applied[i].changed > 0
    /\ output_ttl = {graph}

\* C27: the set related_property_closure returns has at most limit members.
C27_LimitRespected ==
    closure.called => Cardinality(closure.props) <= closure.limit

\* the non-simple causes of a graph: transitive-type and property-chain triples
Causes(gr) == Cardinality({t \in gr : IsCause(t)})

InLoop == npc \in {"hermit", "save", "done", "raised"}

\* the graph the HermiT loop started with
LoopEntryGraph == IF Len(applied) > 4 THEN applied[5].before ELSE graph

\* C21: a run of the Resolver never increases the number of non-simple causes and
\* decreases it when it removed a triple, and the reasoner runs at most once more
\* than there were causes when the loop began, whatever the cap is.
C21_CausesDecrease ==
    /\ \A i \in 1..Len(applied) :
          applied[i].step[1] = "non_simple" =>
             /\ Causes(After(i)) <= Causes(applied[i].before)
             /\ applied[i].changed > 0 => Causes(After(i)) < Causes(applied[i].before)
    /\ (InLoop /\ Len(applied) >= 4) => Len(hermit_runs) <= Causes(LoopEntryGraph) + 1

\* the loop ended below its cap: a productive iteration, then one that removed nothing
C21_Witness ==
    /\ npc = "done"
    /\ Len(hermit_runs) = 2
    /\ max_loops = 3
    /\ hermit_runs[1].changed = 2
    /\ hermit_runs[2].changed = 0
    /\ Causes(LoopEntryGraph) = 2

\* C22: a reasoner call that ran into its timeout counts as Unclassified and the
\* pipeline goes on to its stop-or-resolve step and to the write of the snapshot.
C22_TimeoutUnclassified ==
    \A i \in 1..Len(hermit_runs) :
        hermit_runs[i].ok = "timeout" => npc \in {"hermit", "save", "done"}

StopsLoop(h) ==
    \/ h.ok \in {"True", "False"}
    \/ h.ok = "None" /\ h.kind = ""
    \/ h.changed = 0

\* C24: the reasoner runs at most max_loops times; a run with a Satisfiable or
\* Inconsistent verdict, with an Unclassified output that matches no pattern, or
\* followed by a Resolver run that removed nothing is the last one; the Resolver
\* runs only after an Unclassified verdict whose output matched a pattern; and a
\* finished pipeline has written the snapshot of the final graph.
C24_StopConditions ==
    /\ Len(hermit_runs) <= max_loops
    /\ \A i \in 1..Len(hermit_runs) :
          LET h == hermit_runs[i] IN
          /\ StopsLoop(h) => (i = Len(hermit_runs) /\ npc \in {"save", "done"})
          /\ h.changed # -1 => (h.ok = "None" /\ h.kind # "")
          /\ (h.ok \in {"True", "False"} \/ h.kind = "") => h.changed = -1
    /\ Cardinality({i \in 1..Len(hermit_runs) : hermit_runs[i].changed # -1})
          = Cardinality({i \in 1..Len(applied) : applied[i].step[1] = "non_simple"})
    /\ npc = "done" => output_ttl = {graph}

\* a finished run: a productive Resolver run, then an Inconsistent verdict whose
\* output also cites a non-simple property
C24_Witness ==
    /\ npc = "done"
    /\ Len(hermit_runs) = 2
    /\ hermit_runs[1].changed > 0
    /\ hermit_runs[2].ok = "False"
    /\ hermit_runs[2].kind # ""
    /\ output_ttl = {graph}

(***************************************************************************)
(* Properties of api_utils.send_prompt (SendSpec).                         *)
(***************************************************************************)
Sent == Len(sp_codes)

\* C23: one call sends at most max_retries requests; every request but the last
\* was answered 429; the call has slept wait_time once for each request after
\* the first; a 200 answer ends it with a string, any other answer than 429 ends
\* it with None, a 429 answer to request number max_retries ends it with None
\* without a further sleep, and an earlier 429 leads to the next request.
C23_BoundedRetry ==
    sp_pc # "idle" =>
        /\ Sent <= sp_max_retries
        /\ \A i \in 1..(Sent - 1) : sp_codes[i] = 429
        /\ sp_pc \in {"post", "returned"} =>
              sp_slept = sp_wait_time * (IF sp_attempt = 0 THEN 0 ELSE sp_attempt - 1)
        /\ sp_pc = "next" => sp_slept = sp_wait_time * sp_attempt
        /\ sp_pc = "post" => (Sent = sp_attempt - 1 /\ sp_return.kind = "unset")
        /\ Sent >= 1 /\ sp_pc # "post" =>
              LET last == sp_codes[Sent] IN
              /\ last = 200 => (sp_pc = "returned" /\ sp_return.kind = "str")
              /\ last \notin {200, 429} => (sp_pc = "returned" /\ sp_return.kind = "None")
              /\ (last = 429 /\ Sent = sp_max_retries) =>
                    (sp_pc = "returned" /\ sp_return.kind = "None")
              /\ (last = 429 /\ Sent < sp_max_retries) => sp_pc = "next"

\* a call that used all of three attempts on 429 answers and returned None after
\* two waits of 20 seconds
C23_Witness ==
    /\ sp_pc = "returned"
    /\ sp_max_retries = 3
    /\ sp_codes = <<429, 429, 429>>
    /\ sp_wait_time = 20
    /\ sp_slept = 40
    /\ sp_return.kind = "None"

LastVerdict == verdicts[Len(verdicts)]

\* the steps of one iteration, in the order of the loop body
StepOrder ==
    /\ pc' = "explain" =>
            /\ pc = "check"
            /\ LastVerdict' = "incoherent"
            /\ Len(verdicts') = it
            /\ reasoned' = reasoned \cup {current_onto}
    /\ pc' = "request" => pc \in {"explain", "request"}
    /\ pc' = "apply" => pc = "request" /\ status_code' = 200
    /\ pc' = "check" => pc \in {"llm_gate", "apply"} /\ it' = it + 1
    /\ nRequests' # nRequests => pc = "explain" /\ nRequests' = nRequests + 1
    /\ files' # files =>
            /\ pc = "apply"
            /\ validate_patch_one_op(patch) = ""
            /\ \A f \in FileNames : files'[f] # files[f] => f = it
    /\ pc \in {"explain", "request", "apply"} =>
            /\ it' = it \/ (pc = "apply" /\ pc' = "check")
            /\ current_onto' = current_onto \/ (pc = "apply" /\ pc' \in {"check", "final"})
            /\ verdicts' = verdicts

\* explain, the request and the patch act on the snapshot the check of
\* this iteration found Incoherent
AfterIncoherent ==
    pc \in {"explain", "request", "apply"} =>
        /\ Len(verdicts) = it
        /\ LastVerdict = "incoherent"
        /\ lastStatus = "incoherent"
        /\ current_onto \in reasoned
        /\ nRequests = (IF pc = "explain" THEN it - 1 ELSE it)
        /\ Len(history) = it - 1

\* a Coherent or ToolError verdict ends the loop
AfterStop ==
    (verdicts # <<>> /\ LastVerdict \in {"coherent", "error"}) =>
        /\ pc \in {"returned", "done"}
        /\ nRequests = Len(history)
        /\ \A f \in FileNames \ {0} : files[f] # {} => \E i \in 1..Len(history) : history[i].ontology_path = f

\* C25: in every Patch Loop iteration the steps come in the order check,
\* explain (with the evidence and the prompt), request, validation and
\* application of the patch: explain and the request follow an Incoherent
\* verdict of this iteration's check of the current snapshot, and after a
\* Coherent or ToolError verdict there is no explain call, no request and
\* no snapshot write.
C25_StepOrder == [](AfterIncoherent /\ AfterStop) /\ [][StepOrder]_vars

C25_Witness ==
    /\ pc = "returned"
    /\ verdicts = <<"incoherent", "incoherent", "error">>
    /\ nRequests = 2
    /\ files[1] # {} /\ files[2] # {} /\ files[3] = {}

\* the snapshots written by the loop
Snapshots == {f \in FileNames \ {0} : files[f] # {}}

ResultConsistent ==
    \A r \in result :
        /\ r.iterations = Len(r.history)
        /\ r.history = history
        /\ Cardinality(Snapshots) = Len(r.history)
        /\ patch_files = 1..Len(r.history)
        /\ r.final_ontology =
                (IF r.history = <<>> THEN 0 ELSE r.history[Len(r.history)].ontology_path)
        /\ r.final_ontology = current_onto
        /\ r.final_ontology \in reasoned
        /\ Len(verdicts) = Len(r.history) + 1
        /\ r.status = "coherent" <=> LastVerdict = "coherent"
        /\ r.status = "max_iterations_reached" =>
                (LastVerdict = "incoherent" /\ r.iterations = max_iterations)

\* the step that returns the result is a coherence check of the snapshot
\* the result names
ReturnedByCheck ==
    result' # result =>
        /\ pc \in {"check", "final"}
        /\ Len(verdicts') = Len(verdicts) + 1
        /\ reasoned' = reasoned \cup {current_onto}
        /\ \A r \in result' : r.final_ontology = current_onto
        /\ current_onto' = current_onto /\ history' = history /\ files' = files

\* C30: every result of the Patch Loop is self-consistent: iterations is
\* the number of history records and of patches applied, final_ontology is
\* the snapshot of the last applied patch (the input when there is none)
\* and the one the last coherence check read, and the status is coherent
\* exactly when that check answered Coherent, also after the last allowed
\* iteration.
C30_SelfConsistent == [](ResultConsistent) /\ [][ReturnedByCheck]_vars

C30_Witness ==
    /\ pc = "returned"
    /\ max_iterations = 2
    /\ Len(history) = 2
    /\ verdicts = <<"incoherent", "incoherent", "coherent">>
    /\ \E r \in result : r.status = "coherent" /\ r.iterations = 2 /\ r.final_ontology = 2

(***************************************************************************)
(* Properties of apply_patch_to_ttl (ApplySpec).                           *)
(***************************************************************************)
\* C28 as stated: after any sequence of validated patches applied to a graph
\* that satisfies the data model, every triple of every snapshot has an
\* absolute URI or a blank node as subject and as predicate.
C28_IdentifiersOnly == \A f \in FileNames : \A g \in files[f] : DataModel(g)

(***************************************************************************)
(* Properties of slice_graph (SliceSpec).                                  *)
(***************************************************************************)
\* the seed identifiers that are http(s) IRIs, as terms
HttpSeeds == {n \in {t[1] : t \in sl_g} \cup {t[3] : t \in sl_g} :
                /\ isURIRef(n)
                /\ n.pre \in {"http://", "https://"}
                /\ \E u \in seed_iris : u.pre = n.pre /\ u.rest = n.rest}

AboutSeed(t) == t[1] \in HttpSeeds \/ t[3] \in HttpSeeds

\* the blank nodes one hop from a node of ns: subject or object of a triple
\* whose other end is in ns
BlankNeighbours(ns) ==
    {n \in {t[1] : t \in sl_g} \cup {t[3] : t \in sl_g} :
        /\ isBNode(n)
        /\ \E t \in sl_g : (t[1] = n /\ t[3] \in ns) \/ (t[3] = n /\ t[1] \in ns)}

\* the seeds and the blank nodes at most k blank-node hops from a seed
RECURSIVE WithinHops(_)
WithinHops(k) ==
    IF k = 0 THEN HttpSeeds
    ELSE LET prev == WithinHops(k - 1) IN prev \cup BlankNeighbours(prev)

NearBlank(n) == isBNode(n) /\ n \in WithinHops(bnode_depth)

SliceReturned ==
    sl_pc = "returned" =>
        /\ sl_out \subseteq sl_g
        /\ \A t \in sl_g : AboutSeed(t) => t \in sl_out
        /\ \A t \in sl_out : ~AboutSeed(t) => (NearBlank(t[1]) \/ NearBlank(t[3]))

\* the seed step has added every triple about a seed, and the schema step
\* leaves the slice as it found it
SchemaAddsNothing ==
    /\ sl_pc' # "seed" => \A t \in sl_g : AboutSeed(t) => t \in sl_out'
    /\ (sl_pc = "expand" /\ sl_pc' = "returned") => sl_out' = sl_out

\* C29: for every graph, seed set and bnode_depth >= 0 the slice returned
\* by slice_graph is a subset of the source graph, holds every source triple
\* whose subject or object is an http(s) seed, and every other triple of it
\* has as subject or object a blank node at most bnode_depth blank-node hops
\* from a seed; the schema-predicate step adds no triple the seed step had
\* not added.
C29_SliceShape == [](SliceReturned) /\ [][SchemaAddsNothing]_lvars

C29_Witness ==
    /\ sl_pc = "returned"
    /\ sl_g = SliceTriples
    /\ seed_iris = {Str("http://", "example.org/A"), Str("urn:", "c"), Str("_:", "b1")}
    /\ bnode_depth = 2
    /\ sl_out = { <<IndA, EX("p"), B1>>, <<IndA, RDFS("subClassOf"), EX("X")>>,
                  <<B1, EX("p"), B2>>, <<B1, RDF("type"), EX("X")>>,
                  <<B3, EX("p"), B2>>, <<B2, EX("p"), Lit(<<"x">>, "", "")>> }

(***************************************************************************)
(* Properties of the Slicer's report (ReportSpec).                         *)
(***************************************************************************)
\* C26 as stated: the target-identifier set the Patch Loop scopes its
\* evidence to contains every identifier referenced by any justification
\* block of the Slicer's explanation, and it is the same set in every
\* iteration of the run.
C26_TargetsComplete ==
    rp_pc = "loop" =>
        /\ \A i \in 1..Len(blocks) : blocks[i] \subseteq target_iris
        /\ \A k \in 1..Len(evidence_iris) : evidence_iris[k] = target_iris

====
